---------------------------- MODULE Spec2Model ----------------------------
(***************************************************************************)
(* A model of the QR toolkit (ICodeWR/qrcode_toolkit): the generation      *)
(* engine (core/engine.py), the batch dialog that drives it                *)
(* (gui/batch_processor.py), the record model (core/models.py) and the     *)
(* SQLite store (core/database.py).                                        *)
(*                                                                         *)
(* Fractions such as logo_scale are exact decimals counted in thousandths  *)
(* (0.05 = 50, 0.2 = 200, 0.5 = 500); IEEE not-a-number values are outside *)
(* the model.                                                              *)
(***************************************************************************)
EXTENDS Integers, Sequences, FiniteSets, TLC

(***************************************************************************)
(* Bounds of the model.                                                    *)
(***************************************************************************)
MaxItems == 3
MaxRuns == 2
MaxBatch == 2
MaxFiles == 2
MaxStarts == 2
MaxTemplates == 1

(***************************************************************************)
(* Python's None.                                                          *)
(***************************************************************************)
None == "None"

(***************************************************************************)
(* QRCodeData (core/models.py).  Fractions are counted in thousandths:     *)
(* 0.05 is 50, 0.2 is 200, 0.5 is 500, and the whole number 60 is 60000.   *)
(* created_at is a point in time, EmptyTime standing for the empty string  *)
(* and Now for the value of datetime.now() at construction.  NoneTags      *)
(* stands for tags = None, a list being a sequence of tag strings.         *)
(***************************************************************************)
LogoScaleMin == 50
LogoScaleMax == 500
LogoScaleDefault == 200
EmptyTime == 0
Now == 3
NoneTags == <<None>>

Falsy(text) == text = None \/ text = ""

ClampBelowOnly(scale) == IF scale < LogoScaleMin THEN LogoScaleMin ELSE scale

ClampLogoScale(scale) ==
    IF scale < LogoScaleMin THEN LogoScaleMin
    ELSE IF scale > LogoScaleMax THEN LogoScaleMax
    ELSE scale

KeepWithoutLogo(logo_path, scale) == scale

ResetWithoutLogo(logo_path, scale) ==
    IF Falsy(logo_path) THEN LogoScaleDefault ELSE scale

post_init(self) ==
    [self EXCEPT
        !.created_at = IF self.created_at = EmptyTime THEN Now ELSE self.created_at,
        !.tags = IF self.tags = NoneTags THEN <<>> ELSE self.tags,
        !.logo_scale = ResetWithoutLogo(self.logo_path, ClampLogoScale(self.logo_scale))]

QRCodeData(args) == post_init(args)

ValidColors == {"#000000", "#FFFFFF", "#FF0000", "#00F"}

is_valid_color(color_str) == color_str \in ValidColors

validate(self) ==
    /\ ~Falsy(self.data)
    /\ self.size >= 1 /\ self.size <= 50
    /\ self.border >= 0 /\ self.border <= 10
    /\ self.version >= 0 /\ self.version <= 40
    /\ self.error_correction \in {"L", "M", "Q", "H"}
    /\ self.logo_scale >= LogoScaleMin /\ self.logo_scale <= LogoScaleMax
    /\ is_valid_color(self.foreground_color)
    /\ is_valid_color(self.background_color)
    /\ (~Falsy(self.gradient_start) => is_valid_color(self.gradient_start))
    /\ (~Falsy(self.gradient_end) => is_valid_color(self.gradient_end))
    /\ (Falsy(self.gradient_start) <=> Falsy(self.gradient_end))
    /\ self.gradient_type \in {"linear", "radial"}

(***************************************************************************)
(* validate() returns at the first check that fails, with its message.     *)
(***************************************************************************)
GradientStartOnly(self) == ~Falsy(self.gradient_start) /\ Falsy(self.gradient_end)

GradientIncomplete(self) ==
    \/ ~Falsy(self.gradient_start) /\ Falsy(self.gradient_end)
    \/ ~Falsy(self.gradient_end) /\ Falsy(self.gradient_start)

validate_message(self) ==
    IF Falsy(self.data) THEN "data must not be empty"
    ELSE IF self.size < 1 \/ self.size > 50 THEN "size must be 1 to 50"
    ELSE IF self.border < 0 \/ self.border > 10 THEN "border must be 0 to 10"
    ELSE IF self.version < 0 \/ self.version > 40 THEN "version must be 0 to 40"
    ELSE IF self.error_correction \notin {"L", "M", "Q", "H"}
         THEN "error correction must be L, M, Q or H"
    ELSE IF self.logo_scale < LogoScaleMin \/ self.logo_scale > LogoScaleMax
         THEN "logo scale must be 5% to 50%"
    ELSE IF ~is_valid_color(self.foreground_color) THEN "foreground colour invalid"
    ELSE IF ~is_valid_color(self.background_color) THEN "background colour invalid"
    ELSE IF ~Falsy(self.gradient_start) /\ ~is_valid_color(self.gradient_start)
         THEN "gradient start colour invalid"
    ELSE IF ~Falsy(self.gradient_end) /\ ~is_valid_color(self.gradient_end)
         THEN "gradient end colour invalid"
    ELSE IF GradientIncomplete(self) THEN "gradient needs both start and end colour"
    ELSE IF self.gradient_type \notin {"linear", "radial"}
         THEN "gradient type must be linear or radial"
    ELSE "valid"

validate_result(self) ==
    [ok |-> validate_message(self) = "valid", message |-> validate_message(self)]

(***************************************************************************)
(* The arguments records are constructed from.  The scales lie below, on,  *)
(* between and above the two limits, 60000 being the whole number 60.      *)
(***************************************************************************)
ScaleInputs == {-100, 0, 49, 50, 51, 200, 300, 499, 500, 501, 1000, 60000}
PathInputs == {None, "", "logo.png"}
TagInputs == {NoneTags, <<>>, <<"t1">>, <<"t1", "t2">>}
Ids == {"q1", "q2"}

BaseArgs ==
    [id |-> "q1", data |-> "hello", qr_type |-> "TEXT", version |-> 0,
     error_correction |-> "H", size |-> 10, border |-> 4,
     foreground_color |-> "#000000", background_color |-> "#FFFFFF",
     logo_path |-> None, logo_scale |-> LogoScaleDefault,
     gradient_start |-> None, gradient_end |-> None, gradient_type |-> "linear",
     created_at |-> EmptyTime, tags |-> NoneTags, notes |-> None,
     output_format |-> "PNG"]

CtorInputs ==
    {[BaseArgs EXCEPT !.logo_path = p, !.logo_scale = s, !.tags = t, !.created_at = c] :
        p \in PathInputs, s \in ScaleInputs, t \in TagInputs, c \in {EmptyTime, 1}}

(***************************************************************************)
(* The arguments of the records that are validated: each gradient colour   *)
(* absent, empty, a colour or no colour, alone or with another defect.     *)
(***************************************************************************)
GradientInputs == {None, "", "#FF0000", "red"}

ValidateInputs ==
    {[BaseArgs EXCEPT !.gradient_start = gs, !.gradient_end = ge, !.data = d,
                      !.size = sz, !.foreground_color = fg, !.gradient_type = gt] :
        gs \in GradientInputs, ge \in GradientInputs, d \in {"hello", ""},
        sz \in {0, 10}, fg \in {"#000000", "red"}, gt \in {"linear", "conic"}}

(***************************************************************************)
(* QRCodeDatabase (core/database.py): a record as a row of the qrcodes     *)
(* table and back.  The tags column holds JSON text, here the sequence of  *)
(* its tokens; NULL is None in a text column, NullNumber in a numeric one  *)
(* and the empty sequence in the tags column.                              *)
(***************************************************************************)
NullNumber == -1
QRCodeTypes == {"URL", "TEXT", "WiFi"}

RECURSIVE JsonElements(_)
JsonElements(tags) ==
    IF tags = <<>> THEN <<>>
    ELSE IF Len(tags) = 1 THEN <<"\"", tags[1], "\"">>
    ELSE <<"\"", tags[1], "\"", ",">> \o JsonElements(Tail(tags))

json_dumps(tags) ==
    IF tags = NoneTags THEN <<"null">> ELSE <<"[">> \o JsonElements(tags) \o <<"]">>

JsonInner(text) == SubSeq(text, 2, Len(text) - 1)

JsonIsList(text) ==
    /\ Len(text) >= 2
    /\ text[1] = "[" /\ text[Len(text)] = "]"
    /\ LET inner == JsonInner(text)
       IN /\ Len(inner) = 0 \/ Len(inner) % 4 = 3
          /\ \A i \in DOMAIN inner :
                 /\ (i % 4 \in {1, 3}) => inner[i] = "\""
                 /\ (i % 4 = 0) => inner[i] = ","
                 /\ (i % 4 = 2) => inner[i] \notin {"\"", ",", "[", "]"}

json_loads(text) ==
    IF text = <<"null">> THEN NoneTags
    ELSE [k \in 1..((Len(JsonInner(text)) + 1) \div 4) |-> JsonInner(text)[4 * k - 2]]

Row(qr_record, with_logo_scale) ==
    [id |-> qr_record.id, data |-> qr_record.data, qr_type |-> qr_record.qr_type,
     version |-> qr_record.version, error_correction |-> qr_record.error_correction,
     size |-> qr_record.size, border |-> qr_record.border,
     foreground_color |-> qr_record.foreground_color,
     background_color |-> qr_record.background_color,
     logo_path |-> qr_record.logo_path,
     gradient_start |-> qr_record.gradient_start, gradient_end |-> qr_record.gradient_end,
     gradient_type |-> qr_record.gradient_type, created_at |-> qr_record.created_at,
     tags |-> json_dumps(qr_record.tags), notes |-> qr_record.notes,
     output_format |-> qr_record.output_format,
     logo_scale |-> IF with_logo_scale THEN qr_record.logo_scale ELSE NullNumber]

QRCodeTypeRaw(value) == value

QRCodeTypeOf(value) == IF value \in QRCodeTypes THEN value ELSE "TEXT"

TextOr(value, default) == IF Falsy(value) THEN default ELSE value

NumberOrFalsy(value, default) == IF value = NullNumber \/ value = 0 THEN default ELSE value

NumberOr(value, default) == IF value = NullNumber THEN default ELSE value

CoerceLogoScale(value) ==
    LET logo_scale_val == IF value = NullNumber \/ value = 0 THEN LogoScaleDefault ELSE value
    IN IF logo_scale_val > 1000 THEN logo_scale_val \div 100 ELSE logo_scale_val

row_to_qrcode_data(row, with_logo_scale) ==
    QRCodeData(
        [id |-> row.id, data |-> row.data,
         qr_type |-> QRCodeTypeOf(row.qr_type),
         version |-> NumberOr(row.version, 0),
         error_correction |-> TextOr(row.error_correction, "H"),
         size |-> NumberOr(row.size, 10),
         border |-> NumberOr(row.border, 4),
         foreground_color |-> TextOr(row.foreground_color, "#000000"),
         background_color |-> TextOr(row.background_color, "#FFFFFF"),
         logo_path |-> TextOr(row.logo_path, None),
         logo_scale |-> IF with_logo_scale THEN CoerceLogoScale(row.logo_scale)
                        ELSE LogoScaleDefault,
         gradient_start |-> TextOr(row.gradient_start, None),
         gradient_end |-> TextOr(row.gradient_end, None),
         gradient_type |-> TextOr(row.gradient_type, "linear"),
         created_at |-> IF row.created_at \in {NullNumber, EmptyTime} THEN EmptyTime
                        ELSE row.created_at,
         tags |-> IF row.tags = <<>> THEN <<>>
                  ELSE IF row.tags = <<"null">> \/ JsonIsList(row.tags)
                  THEN json_loads(row.tags) ELSE <<>>,
         notes |-> TextOr(row.notes, ""),
         output_format |-> TextOr(row.output_format, "PNG")])

(***************************************************************************)
(* The records given to the store: every one is constructed and valid. A   *)
(* profile leaves the optional fields unset with the least valid numbers,  *)
(* sets them to empty strings, sets them with the greatest numbers, or     *)
(* sets only the logo, at the upper limit of its scale.                    *)
(***************************************************************************)
Profiles ==
    {[data |-> "test-A",
      notes |-> None, gradient |-> None, output_format |-> "PNG", tags |-> NoneTags,
      version |-> 0, size |-> 1, border |-> 0, created_at |-> 1, qr_type |-> "TEXT",
      logo_path |-> None, logo_scale |-> 300],
     [data |-> "TEST-B",
      notes |-> "", gradient |-> "", output_format |-> "", tags |-> <<>>,
      version |-> 5, size |-> 10, border |-> 4, created_at |-> 2, qr_type |-> "URL",
      logo_path |-> "", logo_scale |-> 300],
     [data |-> "other",
      notes |-> "memo", gradient |-> "#FF0000", output_format |-> "SVG",
      tags |-> <<"t1", "t2">>,
      version |-> 40, size |-> 50, border |-> 10, created_at |-> 2, qr_type |-> "WiFi",
      logo_path |-> "logo.png", logo_scale |-> 300],
     [data |-> "hello",
      notes |-> None, gradient |-> None, output_format |-> "PNG", tags |-> <<"t1">>,
      version |-> 0, size |-> 1, border |-> 0, created_at |-> 1, qr_type |-> "TEXT",
      logo_path |-> "logo.png", logo_scale |-> 500]}

StoreArgs(id) ==
    {[BaseArgs EXCEPT !.id = id, !.data = o.data, !.notes = o.notes, !.gradient_start = o.gradient,
                      !.gradient_end = o.gradient, !.output_format = o.output_format,
                      !.tags = o.tags, !.version = o.version, !.size = o.size,
                      !.border = o.border, !.created_at = o.created_at,
                      !.qr_type = o.qr_type, !.logo_path = o.logo_path,
                      !.logo_scale = o.logo_scale] :
        o \in Profiles}

Records(id) == {r \in {QRCodeData(a) : a \in StoreArgs(id)} : validate(r)}

(***************************************************************************)
(* Rows written into the qrcodes table by hand, not by save_qrcode: the    *)
(* type is any string, every other column but id and data may be NULL or   *)
(* empty, the tags column may hold text that is not JSON, and the          *)
(* logo_scale column holds a fraction or a whole number (60 is 60000).     *)
(***************************************************************************)
RawTexts ==
    {[error_correction |-> None, foreground_color |-> None, background_color |-> None,
      gradient_start |-> None, gradient_end |-> None, gradient_type |-> None,
      notes |-> None, output_format |-> None],
     [error_correction |-> "", foreground_color |-> "", background_color |-> "",
      gradient_start |-> "", gradient_end |-> "", gradient_type |-> "",
      notes |-> "", output_format |-> ""],
     [error_correction |-> "L", foreground_color |-> "#FF0000", background_color |-> "#00F",
      gradient_start |-> "#FF0000", gradient_end |-> "#00F", gradient_type |-> "radial",
      notes |-> "memo", output_format |-> "SVG"]}

RawNumbers ==
    {[version |-> NullNumber, size |-> NullNumber, border |-> NullNumber,
      created_at |-> NullNumber],
     [version |-> 0, size |-> 0, border |-> 0, created_at |-> EmptyTime],
     [version |-> 5, size |-> 20, border |-> 2, created_at |-> 1]}

RawTypes == {"TEXT", "URL", "INVALID_TYPE"}
RawTags == {<<>>, <<"null">>, <<"[", "\"", "t1", "\"", "]">>, <<"[", "\"", "t1">>}
RawLogoPaths == {None, "", "logo.png"}
RawLogoScales == {NullNumber, 0, 200, 600, 1000, 1500, 60000}

RawRows ==
    {[id |-> "q1", data |-> "hello", qr_type |-> t,
      version |-> n.version, error_correction |-> x.error_correction,
      size |-> n.size, border |-> n.border,
      foreground_color |-> x.foreground_color, background_color |-> x.background_color,
      logo_path |-> lp,
      gradient_start |-> x.gradient_start, gradient_end |-> x.gradient_end,
      gradient_type |-> x.gradient_type, created_at |-> n.created_at,
      tags |-> tg, notes |-> x.notes, output_format |-> x.output_format,
      logo_scale |-> ls] :
        t \in RawTypes, n \in RawNumbers, x \in RawTexts, tg \in RawTags,
        lp \in RawLogoPaths, ls \in RawLogoScales}

(***************************************************************************)
(* Text as SQLite compares it.  A string of the model is spelled out as    *)
(* its characters; the tags column holds the text json.dumps wrote, with   *)
(* ", " between the elements.                                              *)
(***************************************************************************)
Spell ==
    ("test-A" :> <<"t", "e", "s", "t", "-", "A">>) @@
    ("TEST-B" :> <<"T", "E", "S", "T", "-", "B">>) @@
    ("other" :> <<"o", "t", "h", "e", "r">>) @@
    ("hello" :> <<"h", "e", "l", "l", "o">>) @@
    ("memo" :> <<"m", "e", "m", "o">>) @@
    ("test" :> <<"t", "e", "s", "t">>) @@
    ("" :> <<>>) @@
    ("t1" :> <<"t", "1">>) @@
    ("t2" :> <<"t", "2">>) @@
    ("T1" :> <<"T", "1">>) @@
    ("null" :> <<"n", "u", "l", "l">>) @@
    ("[" :> <<"[">>) @@ ("]" :> <<"]">>) @@ ("\"" :> <<"\"">>) @@ ("," :> <<",", " ">>)

RECURSIVE JsonText(_)
JsonText(tokens) ==
    IF tokens = <<>> THEN <<>> ELSE Spell[Head(tokens)] \o JsonText(Tail(tokens))

UpperCase ==
    <<"A", "B", "C", "D", "E", "F", "G", "H", "I", "J", "K", "L", "M",
      "N", "O", "P", "Q", "R", "S", "T", "U", "V", "W", "X", "Y", "Z">>

LowerCase ==
    <<"a", "b", "c", "d", "e", "f", "g", "h", "i", "j", "k", "l", "m",
      "n", "o", "p", "q", "r", "s", "t", "u", "v", "w", "x", "y", "z">>

FoldExact(char) == char

Fold(char) ==
    IF \E i \in DOMAIN UpperCase : UpperCase[i] = char
    THEN LowerCase[CHOOSE i \in DOMAIN UpperCase : UpperCase[i] = char]
    ELSE char

(***************************************************************************)
(* The LIKE operator of SQLite with its default settings: "%" stands for   *)
(* any run of characters, "_" for any one character, and an ASCII letter   *)
(* matches in either case.                                                 *)
(***************************************************************************)
RECURSIVE LikeMatch(_, _)
LikeMatch(pattern, text) ==
    IF pattern = <<>> THEN text = <<>>
    ELSE IF Head(pattern) = "%"
    THEN LikeMatch(Tail(pattern), text) \/ (text # <<>> /\ LikeMatch(pattern, Tail(text)))
    ELSE /\ text # <<>>
         /\ Head(pattern) = "_" \/ Fold(Head(pattern)) = Fold(Head(text))
         /\ LikeMatch(Tail(pattern), Tail(text))

KeywordPattern(keyword) == <<"%">> \o Spell[keyword] \o <<"%">>

TagPattern(tag) == <<"%", "\"">> \o Spell[tag] \o <<"\"", "%">>

KeywordCondition(row, keyword) ==
    \/ LikeMatch(KeywordPattern(keyword), Spell[row.data])
    \/ row.notes # None /\ LikeMatch(KeywordPattern(keyword), Spell[row.notes])

TagCondition(row, tag) == row.tags # <<>> /\ LikeMatch(TagPattern(tag), JsonText(row.tags))

DefaultLimit == 100
DefaultOffset == 0

Page(order, limit, offset) ==
    SubSeq(order, offset + 1, IF offset + limit < Len(order) THEN offset + limit ELSE Len(order))

Keywords == {None, "test"}
TypeFilters == {None, "URL"}
TagFilters == {<<>>, <<"T1", "t2">>}

VARIABLES
    \* ---- QRCodeEngine (core/engine.py) ----
    running,        \* self.running: the cooperative stop flag
    batch_data,     \* self.batch_data
    qr_data,        \* self.qr_data
    pc,             \* where the worker thread is in run(); "idle" = not running
    total,          \* _generate_batch: total
    items,          \* _generate_batch: the list object the for loop iterates
    idx,            \* _generate_batch: number of loop iterations completed (i)
    successful,     \* _generate_batch: successful
    \* ---- observation of one thread run (history) ----
    emitted,        \* the signals emitted by the current thread run, in order
    written,        \* positions of the items whose image file was written
    stopAt,         \* idx when stop() was first called in this run (-1: never)
    stopPc,         \* where the worker was at that moment ("none": never)
    runs,           \* thread runs started so far
    \* ---- BatchProcessor dialog (gui/batch_processor.py) ----
    is_processing,  \* self.is_processing
    current_task,   \* self.current_task: None, "generate" or "scan"
    batch_qr_list,  \* self.batch_qr_list
    batch_total,    \* self.batch_total
    batch_current,  \* self.batch_current
    batch_failed,   \* self.batch_failed
    signals_connected, \* self._signals_connected: the engine's signals are connected
    queue,          \* engine signals queued for the dialog's slots (interface thread)
    summary,        \* the "batch finished" summaries shown so far, in order
    starts,         \* tasks started from the dialog so far
    halted,         \* <<>>, or the engine run and the last item begun in it when the
                    \* user paused or stopped a generation
    \* ---- QRCodeScanner / QRCodeBatchScanner (core/scanner.py) ----
    scanning,       \* QRCodeScanner.scanning
    image_paths,    \* QRCodeScanner.image_paths
    scanPc,         \* where the scanner thread is in run(); "idle" = not running
    files,          \* _scan_files: the list the for loop iterates
    scanIdx,        \* _scan_files: number of loop iterations completed
    results,        \* _scan_files: results
    squeue,         \* scanner signals queued for the batch scanner's slots
    bsResults,      \* QRCodeBatchScanner.results
    exported,       \* the result lists written to the output file, in order
    \* ---- QRCodeScanner._scan_with_camera (core/scanner.py) ----
    platform_system, \* platform.system()
    cap,            \* the local cap: <<>> is None, <<h>> the capture object h
    unreleased,     \* captures that hold the device and had no release() call
    attempts,       \* backends tried so far
    success,        \* the local success
    frame_count,    \* the local frame_count
    camera_runs,    \* camera scans started
    \* ---- QRCodeScanner._calculate_confidence (core/scanner.py) ----
    decoded_obj,    \* the decoded object: its rect and its polygon, if it has them
    confidence,     \* <<>>, or <<c>> with the returned value c in hundredths
    \* ---- MainWindow (gui/main_window.py) ----
    scan_btn,       \* self.scan_btn is enabled
    scans,          \* scans started from the main window so far
    was_scanning,   \* get_available_cameras, called by refresh_camera_list: <<>> when
                    \* not in the call, <<b>> with its local was_scanning = b inside it
    \* ---- QRCodeEngine._generate_gradient_qr (core/engine.py) ----
    matrix,         \* qr.get_matrix(): rows of booleans, matrix[y + 1][x + 1]
    module_size,    \* data.size: pixels per module
    gradient_type,  \* data.gradient_type
    image,          \* the canvas: the colour of every pixel <<px, py>>
    cursor,         \* modules visited by the nested loop so far, in row order
    ratio,          \* <<>>, or the module last drawn and the ratio computed for it
    \* ---- QRCodeEngine._add_logo (core/engine.py) ----
    qr_image_size,  \* qr_image.size: <<width, height>>
    scale_ratio,    \* data.logo_scale, in thousandths
    logo_size,      \* <<>>, or <<n>> with the side length n the logo is resized to
    \* ---- QRCodeData (core/models.py) ----
    ctor_args,      \* the arguments a record is being constructed from
    record,         \* the constructed record: <<>> before, <<r>> after __post_init__
    verdict,        \* what validate() returned for the record: <<>> before the call
    \* ---- QRCodeDatabase (core/database.py) ----
    has_logo_scale, \* the qrcodes table has the logo_scale column
    qrcodes,        \* the rows of the qrcodes table
    templates,      \* the rows of the templates table
    next_template_id, \* the AUTOINCREMENT counter of the templates table
    lastOp,         \* the last store operation: name, argument, fault, outcome, result
    shadow,         \* per identifier: <<r>> for the record last saved, <<>> if none
    resaved         \* per identifier: saved again with a different payload

engineVars == <<running, batch_data, qr_data, pc, total, items, idx, successful>>
histVars == <<emitted, written, stopAt, stopPc, runs>>
dialogVars == <<is_processing, current_task, batch_qr_list, batch_total, batch_current,
                batch_failed, signals_connected, summary, starts, halted>>
scanVars == <<scanning, image_paths, scanPc, files, scanIdx, results, squeue>>
batchScanVars == <<bsResults, exported>>
cameraVars == <<platform_system, cap, unreleased, attempts, success, frame_count,
               camera_runs>>
hitVars == <<decoded_obj, confidence>>
windowVars == <<scan_btn, scans, was_scanning>>
drawVars == <<matrix, module_size, gradient_type, image, cursor, ratio>>
logoVars == <<qr_image_size, scale_ratio, logo_size>>
recordVars == <<ctor_args, record, verdict>>
storeVars == <<has_logo_scale, qrcodes, templates, next_template_id, lastOp, shadow, resaved>>
vars == <<engineVars, histVars, queue, dialogVars, scanVars, batchScanVars,
          cameraVars, hitVars, windowVars, drawVars, logoVars, recordVars, storeVars>>

(***************************************************************************)
(* A batch item is the outcome its generation has: "good" is encoded and   *)
(* saved, "bad" makes the encoding or image library raise.  An "invalid"   *)
(* record fails validate() but is accepted by the libraries (a module size *)
(* of 51, a border of 11, a colour given by name).                         *)
(***************************************************************************)
ItemKinds == {"good", "bad", "invalid"}

BatchLists == UNION {[1..n -> ItemKinds] : n \in 1..MaxItems}

SingleKinds == {"good", "bad", "invalid"}

(***************************************************************************)
(* Signals: one record shape for the four signals of the engine.           *)
(*   batch_completed(a, b)          a = completed, b = total               *)
(*   progress_updated(a, msg)       a = percentage; s, t = the two numbers *)
(*                                  the message text carries               *)
(*   error_occurred(msg)            s = position of the failed item        *)
(*   qr_generated                                                          *)
(***************************************************************************)
Sig(name, a, b, msg, s, t) ==
    [sig |-> name, a |-> a, b |-> b, msg |-> msg, s |-> s, t |-> t]

BatchCompleted(completed, tot) == Sig("batch_completed", completed, tot, "", 0, 0)

Progress(value, msg, s, t) == Sig("progress_updated", value, 0, msg, s, t)

ErrorOccurred(msg, s) == Sig("error_occurred", 0, 0, msg, s, 0)

QrGenerated == Sig("qr_generated", 0, 0, "", 0, 0)

(***************************************************************************)
(* The dialog connects batch_completed, progress_updated and               *)
(* error_occurred; the slot of progress_updated only sets a label, so the  *)
(* queue keeps the two signals whose slots change the dialog's state.  A   *)
(* signal emitted while nothing is connected reaches no slot.              *)
(***************************************************************************)
Queued(sigs) == SelectSeq(sigs, LAMBDA e : e.sig \in {"batch_completed", "error_occurred"})

Emit(sigs) ==
    /\ emitted' = emitted \o sigs
    /\ queue' = IF signals_connected THEN queue \o Queued(sigs) ELSE queue

NoEmit == UNCHANGED <<emitted, queue>>

(***************************************************************************)
(* QRCodeEngine.generate_batch / generate / stop.  QThread.start() starts  *)
(* the thread when it is not running and does nothing when it is.          *)
(***************************************************************************)
ThreadStart ==
    IF pc = "idle"
    THEN /\ pc' = "run"
         /\ runs' = runs + 1
         /\ emitted' = <<>>
         /\ written' = {}
         /\ stopAt' = -1
         /\ stopPc' = "none"
    ELSE UNCHANGED <<pc, runs, emitted, written, stopAt, stopPc>>

generate_batch(qr_data_list) ==
    /\ qr_data' = None
    /\ batch_data' = qr_data_list
    /\ running' = TRUE
    /\ ThreadStart
    /\ UNCHANGED <<total, items, idx, successful>>

generate(one) ==
    /\ qr_data' = one
    /\ batch_data' = <<>>
    /\ running' = TRUE
    /\ ThreadStart
    /\ UNCHANGED <<total, items, idx, successful>>

stop ==
    /\ running' = FALSE
    /\ stopAt' = IF stopAt # -1 THEN stopAt ELSE IF pc = "run" THEN 0 ELSE idx
    /\ stopPc' = IF stopAt # -1 THEN stopPc ELSE pc
    /\ UNCHANGED <<batch_data, qr_data, pc, total, items, idx, successful>>
    /\ UNCHANGED <<emitted, queue, written, runs>>

(***************************************************************************)
(* QRCodeEngine.run: the dispatch on self.batch_data.                      *)
(***************************************************************************)
Run ==
    /\ pc = "run"
    /\ IF batch_data # <<>>
       THEN /\ pc' = "batch_start"
            /\ total' = Len(batch_data)
            /\ successful' = 0
            /\ idx' = 0
            /\ Emit(<<Progress(0, "start", 0, Len(batch_data))>>)
       ELSE /\ pc' = "single"
            /\ UNCHANGED <<total, successful, idx, emitted, queue>>
    /\ UNCHANGED <<running, batch_data, qr_data, items, written, stopAt, stopPc, runs>>

(***************************************************************************)
(* _generate_batch: the for statement takes the list to iterate.           *)
(***************************************************************************)
LoopEnter ==
    /\ pc = "batch_start"
    /\ items' = batch_data
    /\ pc' = "check"
    /\ UNCHANGED <<running, batch_data, qr_data, total, idx, successful>>
    /\ UNCHANGED <<histVars, queue>>

Percent(i, tot) == IF tot > 0 THEN ((i + 1) * 100) \div tot ELSE 0

(***************************************************************************)
(* The count the cancel branch reports: the loop index i.                  *)
(***************************************************************************)
CancelCountSuccessful == successful

CancelCount == idx

(***************************************************************************)
(* The poll of the stop flag: if not self.running.                         *)
(***************************************************************************)
StopPolledNever == FALSE

StopPolled == ~running

(***************************************************************************)
(* One pass through the head of the loop: the loop ends when the list is   *)
(* exhausted; otherwise the stop flag is polled, once per item.            *)
(***************************************************************************)
LoopCheck ==
    /\ pc = "check"
    /\ IF idx = Len(items)
       THEN /\ pc' = "final"
            /\ NoEmit
       ELSE IF StopPolled
       THEN /\ pc' = "final"
            /\ Emit(<<Progress(0, "cancelled", 0, 0), BatchCompleted(CancelCount, total)>>)
       ELSE /\ pc' = "item"
            /\ Emit(<<Progress(Percent(idx, total), "generating", idx + 1, total)>>)
    /\ UNCHANGED <<running, batch_data, qr_data, total, items, idx, successful>>
    /\ UNCHANGED <<written, stopAt, stopPc, runs>>

(***************************************************************************)
(* The body of the loop for one item: encode, render, save the file, count *)
(* and report; an exception is caught per item and reported.               *)
(***************************************************************************)
ItemAborts ==
    /\ successful' = successful
    /\ written' = written
    /\ idx' = idx
    /\ pc' = "exit"
    /\ Emit(<<ErrorOccurred("failed", 0)>>)

ItemFailed ==
    /\ successful' = successful
    /\ written' = written
    /\ idx' = idx + 1
    /\ pc' = "check"
    /\ Emit(<<ErrorOccurred("item", idx + 1), BatchCompleted(idx + 1, total)>>)

(***************************************************************************)
(* The loop body hands the record to qrcode.QRCode and to Image.save with  *)
(* no call of validate(): whatever the libraries accept is saved.          *)
(***************************************************************************)
BatchSaves(kind) == kind # "bad"

ItemStep ==
    /\ pc = "item"
    /\ IF BatchSaves(items[idx + 1])
       THEN /\ successful' = successful + 1
            /\ written' = written \cup {idx + 1}
            /\ idx' = idx + 1
            /\ pc' = "check"
            /\ Emit(<<BatchCompleted(idx + 1, total)>>)
       ELSE ItemFailed
    /\ UNCHANGED <<running, batch_data, qr_data, total, items, stopAt, stopPc, runs>>

(***************************************************************************)
(* After the loop: the completion notification, only when still running.   *)
(***************************************************************************)
CompletionAlways == TRUE

CompletionAllowed == running

BatchFinal ==
    /\ pc = "final"
    /\ IF CompletionAllowed
       THEN Emit(<<Progress(100, "complete", successful, total)>>)
       ELSE NoEmit
    /\ pc' = "exit"
    /\ UNCHANGED <<running, batch_data, qr_data, total, items, idx, successful>>
    /\ UNCHANGED <<written, stopAt, stopPc, runs>>

(***************************************************************************)
(* _generate_single, as far as its signals go.                             *)
(***************************************************************************)
Single ==
    /\ pc = "single"
    /\ IF qr_data = None
       THEN Emit(<<ErrorOccurred("no data", 0)>>)
       ELSE IF qr_data = "invalid"
       THEN Emit(<<Progress(10, "init", 0, 0), ErrorOccurred("validation", 0)>>)
       ELSE IF qr_data = "bad"
       THEN Emit(<<Progress(10, "init", 0, 0), ErrorOccurred("failed", 0)>>)
       ELSE Emit(<<Progress(10, "init", 0, 0), Progress(100, "done", 0, 0), QrGenerated>>)
    /\ pc' = "exit"
    /\ UNCHANGED <<running, batch_data, qr_data, total, items, idx, successful>>
    /\ UNCHANGED <<written, stopAt, stopPc, runs>>

(***************************************************************************)
(* run(): finally self.running = False; the thread ends.                   *)
(***************************************************************************)
RunExit ==
    /\ pc = "exit"
    /\ running' = FALSE
    /\ pc' = "idle"
    /\ UNCHANGED <<batch_data, qr_data, total, items, idx, successful>>
    /\ UNCHANGED <<histVars, queue>>

Worker == Run \/ LoopEnter \/ LoopCheck \/ ItemStep \/ BatchFinal \/ Single \/ RunExit

(***************************************************************************)
(* A caller of the engine that keeps to one task at a time: it asks for a  *)
(* generation only when the worker thread has finished, and may call       *)
(* stop() whenever a run is in progress.                                   *)
(***************************************************************************)
ApiGenerateBatch ==
    /\ pc = "idle"
    /\ runs < MaxRuns
    /\ \E l \in BatchLists : generate_batch(l)

ApiGenerate ==
    /\ pc = "idle"
    /\ runs < MaxRuns
    /\ \E one \in SingleKinds : generate(one)

ApiStop ==
    /\ pc # "idle"
    /\ running
    /\ stop

EngineInit ==
    /\ running = FALSE
    /\ batch_data = <<>>
    /\ qr_data = None
    /\ pc = "idle"
    /\ total = 0
    /\ items = <<>>
    /\ idx = 0
    /\ successful = 0
    /\ emitted = <<>>
    /\ written = {}
    /\ stopAt = -1
    /\ stopPc = "none"
    /\ runs = 0

DialogInit ==
    /\ is_processing = FALSE
    /\ current_task = None
    /\ batch_qr_list = <<>>
    /\ batch_total = 0
    /\ batch_current = 0
    /\ batch_failed = 0
    /\ signals_connected = FALSE
    /\ queue = <<>>
    /\ summary = <<>>
    /\ starts = 0
    /\ halted = <<>>

ScanFilesInit ==
    /\ scanning = FALSE
    /\ image_paths = <<>>
    /\ scanPc = "idle"
    /\ files = <<>>
    /\ scanIdx = 0
    /\ results = <<>>
    /\ squeue = <<>>
    /\ bsResults = <<>>
    /\ exported = <<>>

CameraInit ==
    /\ cap = <<>>
    /\ unreleased = {}
    /\ attempts = 0
    /\ success = FALSE
    /\ frame_count = 0
    /\ camera_runs = 0

NoObject == [rect |-> <<>>, polygon |-> <<>>]

HitInit ==
    /\ decoded_obj = NoObject
    /\ confidence = <<>>

ScannerInit == ScanFilesInit /\ CameraInit /\ HitInit /\ platform_system = "Linux"

WindowInit ==
    /\ scan_btn = TRUE
    /\ scans = 0
    /\ was_scanning = <<>>

DrawInit ==
    /\ matrix = <<>>
    /\ module_size = 1
    /\ gradient_type = "linear"
    /\ image = <<>>
    /\ cursor = 0
    /\ ratio = <<>>

LogoInit ==
    /\ qr_image_size = <<0, 0>>
    /\ scale_ratio = LogoScaleDefault
    /\ logo_size = <<>>

RecordInit ==
    /\ ctor_args = BaseArgs
    /\ record = <<>>
    /\ verdict = <<>>

NoOp == [op |-> "none", arg |-> None, fault |-> "none", outcome |-> "returned", ret |-> None]

StoreInit ==
    /\ has_logo_scale = TRUE
    /\ qrcodes = {}
    /\ templates = {}
    /\ next_template_id = 1
    /\ lastOp = NoOp
    /\ shadow = [id \in Ids |-> <<>>]
    /\ resaved = [id \in Ids |-> FALSE]

Init == EngineInit /\ DialogInit /\ WindowInit /\ DrawInit /\ LogoInit /\ ScannerInit /\ RecordInit /\ StoreInit

(***************************************************************************)
(* The engine on its own, used through its methods: no dialog, no scanner. *)
(***************************************************************************)
DataIdle == UNCHANGED <<cameraVars, hitVars, windowVars, drawVars, logoVars, recordVars, storeVars>>

ShellIdle == UNCHANGED <<dialogVars, scanVars, batchScanVars>> /\ DataIdle

Next ==
    \/ ApiGenerateBatch /\ UNCHANGED queue /\ ShellIdle
    \/ ApiGenerate /\ UNCHANGED queue /\ ShellIdle
    \/ ApiStop /\ ShellIdle
    \/ Run /\ ShellIdle
    \/ LoopEnter /\ ShellIdle
    \/ LoopCheck /\ ShellIdle
    \/ ItemStep /\ ShellIdle
    \/ BatchFinal /\ ShellIdle
    \/ Single /\ ShellIdle
    \/ RunExit /\ ShellIdle

Spec == Init /\ [][Next]_vars

(***************************************************************************)
(* The worker thread, once started, is scheduled until run() returns.      *)
(***************************************************************************)
SpecLive == Spec /\ WF_vars(Worker /\ ShellIdle)


(***************************************************************************)
(* QRCodeScanner: scan_files, stop_scanning and the worker thread's        *)
(* _scan_files.  A file is "hit" (one code is decoded), "empty" (no code)  *)
(* or "missing" (it does not exist or cannot be read).                     *)
(***************************************************************************)
FileKinds == {"hit", "empty", "missing"}

FileLists == UNION {[1..n -> FileKinds] : n \in 0..MaxFiles}

SSig(name, res) == [sig |-> name, res |-> res]

SEmit(sigs) == squeue' = squeue \o sigs

scan_files(file_paths) ==
    /\ image_paths' = file_paths
    /\ scanning' = TRUE
    /\ scanPc' = IF scanPc = "idle" THEN "run" ELSE scanPc
    /\ UNCHANGED <<files, scanIdx, results, squeue>>

stop_scanning ==
    /\ scanning' = FALSE
    /\ UNCHANGED <<image_paths, scanPc, files, scanIdx, results, squeue>>

scan_folder(image_files) ==
    IF image_files # <<>> THEN scan_files(image_files) ELSE UNCHANGED scanVars

ScanRun ==
    /\ scanPc = "run"
    /\ results' = <<>>
    /\ IF Len(image_paths) = 0
       THEN /\ SEmit(<<SSig("error_occurred", <<>>)>>)
            /\ scanPc' = "finish"
            /\ UNCHANGED <<files, scanIdx>>
       ELSE /\ files' = image_paths
            /\ scanIdx' = 0
            /\ scanPc' = "check"
            /\ UNCHANGED squeue
    /\ UNCHANGED <<scanning, image_paths>>

ScanCheck ==
    /\ scanPc = "check"
    /\ scanPc' = IF scanIdx = Len(files) \/ ~scanning THEN "emit" ELSE "file"
    /\ UNCHANGED <<scanning, image_paths, files, scanIdx, results, squeue>>

AfterFileFatal(kind, index, count) == IF kind = "missing" THEN count ELSE index + 1

AfterFile(kind, index, count) == index + 1

ScanFile ==
    /\ scanPc = "file"
    /\ IF files[scanIdx + 1] = "missing"
       THEN /\ SEmit(<<SSig("error_occurred", <<>>)>>)
            /\ UNCHANGED results
       ELSE /\ results' = IF files[scanIdx + 1] = "hit"
                          THEN Append(results, scanIdx + 1)
                          ELSE results
            /\ UNCHANGED squeue
    /\ scanIdx' = AfterFile(files[scanIdx + 1], scanIdx, Len(files))
    /\ scanPc' = "check"
    /\ UNCHANGED <<scanning, image_paths, files>>

ScanEmit ==
    /\ scanPc = "emit"
    /\ SEmit(<<SSig("qr_scanned", results)>>)
    /\ scanPc' = "finish"
    /\ UNCHANGED <<scanning, image_paths, files, scanIdx, results>>

ScanFinish ==
    /\ scanPc = "finish"
    /\ SEmit(<<SSig("scan_finished", <<>>)>>)
    /\ scanPc' = "idle"
    /\ UNCHANGED <<scanning, image_paths, files, scanIdx, results>>

ScanWorker == ScanRun \/ ScanCheck \/ ScanFile \/ ScanEmit \/ ScanFinish

(***************************************************************************)
(* QRCodeScanner: a camera scan.  Opening tries DirectShow, MSMF and the   *)
(* default backend on Windows and the default backend elsewhere.  A try    *)
(* either raises inside cv2.VideoCapture(...), leaving cap as it was, or   *)
(* binds cap to a capture that is not opened, to one that is opened but    *)
(* gives no test frame, or to one that is opened and gives a frame.  The   *)
(* preview and progress signals are left out.                              *)
(***************************************************************************)
MaxFrames == 2
MaxCameraRuns == 2

Platforms == {"Windows", "Linux"}

Backends(system) == IF system = "Windows" THEN 3 ELSE 1

OpenOutcomes == {"raises", "closed", "noframe", "ok"}

FrameOutcomes == {"timeout", "nohit", "hit", "raises"}

scan_camera ==
    /\ scanning' = TRUE
    /\ scanPc' = IF scanPc = "idle" THEN "cam_init" ELSE scanPc
    /\ UNCHANGED <<image_paths, files, scanIdx, results, squeue>>
    /\ UNCHANGED <<platform_system, cap, unreleased, attempts, success, frame_count>>

ScanCamera ==
    /\ scanPc = "idle"
    /\ camera_runs < MaxCameraRuns
    /\ camera_runs' = camera_runs + 1
    /\ scan_camera

CamInit ==
    /\ scanPc = "cam_init"
    /\ cap' = <<>>
    /\ results' = <<>>
    /\ frame_count' = 0
    /\ success' = FALSE
    /\ attempts' = 0
    /\ scanPc' = "cam_open"
    /\ UNCHANGED <<scanning, image_paths, files, scanIdx, squeue>>
    /\ UNCHANGED <<platform_system, unreleased, camera_runs>>

Capture == <<camera_runs, attempts + 1>>

CamOpen ==
    /\ scanPc = "cam_open"
    /\ ~success
    /\ attempts < Backends(platform_system)
    /\ attempts' = attempts + 1
    /\ \E outcome \in OpenOutcomes :
           /\ cap' = IF outcome = "raises" THEN cap ELSE <<Capture>>
           /\ unreleased' = IF outcome \in {"noframe", "ok"}
                            THEN unreleased \cup {Capture}
                            ELSE unreleased
           /\ success' = (outcome = "ok")
    /\ UNCHANGED scanVars
    /\ UNCHANGED <<platform_system, frame_count, camera_runs>>

CamOpenCheck ==
    /\ scanPc = "cam_open"
    /\ success \/ attempts = Backends(platform_system)
    /\ IF ~success \/ cap = <<>> \/ cap[1] \notin unreleased
       THEN /\ SEmit(<<SSig("error_occurred", <<>>)>>)
            /\ scanPc' = "cam_finally"
       ELSE /\ scanPc' = "cam_setup"
            /\ UNCHANGED squeue
    /\ UNCHANGED <<scanning, image_paths, files, scanIdx, results>>
    /\ UNCHANGED cameraVars

CamSetup ==
    /\ scanPc = "cam_setup"
    /\ \E raised \in BOOLEAN :
           IF raised
           THEN /\ SEmit(<<SSig("error_occurred", <<>>)>>)
                /\ scanPc' = "cam_finally"
           ELSE /\ scanPc' = "cam_loop"
                /\ UNCHANGED squeue
    /\ frame_count' = 0
    /\ UNCHANGED <<scanning, image_paths, files, scanIdx, results>>
    /\ UNCHANGED <<platform_system, cap, unreleased, attempts, success, camera_runs>>

NoResults == IF results = <<>> THEN <<SSig("qr_scanned", <<>>)>> ELSE <<>>

CamFrame ==
    /\ scanPc = "cam_loop"
    /\ IF ~scanning
       THEN /\ SEmit(NoResults)
            /\ scanPc' = "cam_finally"
            /\ UNCHANGED <<scanning, results, frame_count>>
       ELSE \E outcome \in FrameOutcomes :
                /\ outcome = "nohit" => frame_count < MaxFrames
                /\ CASE outcome = "timeout" ->
                          /\ SEmit(NoResults)
                          /\ scanPc' = "cam_finally"
                          /\ UNCHANGED <<scanning, results, frame_count>>
                     [] outcome = "nohit" ->
                          /\ frame_count' = frame_count + 1
                          /\ UNCHANGED <<scanning, results, squeue, scanPc>>
                     [] outcome = "hit" ->
                          /\ results' = Append(results, frame_count + 1)
                          /\ SEmit(<<SSig("qr_scanned", Append(results, frame_count + 1))>>)
                          /\ scanning' = FALSE
                          /\ frame_count' = frame_count + 1
                          /\ UNCHANGED scanPc
                     [] outcome = "raises" ->
                          /\ SEmit(<<SSig("error_occurred", <<>>)>>)
                          /\ scanPc' = "cam_finally"
                          /\ UNCHANGED <<scanning, results, frame_count>>
    /\ UNCHANGED <<image_paths, files, scanIdx>>
    /\ UNCHANGED <<platform_system, cap, unreleased, attempts, success, camera_runs>>

(***************************************************************************)
(* finally: if cap is not None: cap.release()                              *)
(***************************************************************************)
CamFinally ==
    /\ scanPc = "cam_finally"
    /\ unreleased' = IF cap # <<>> THEN unreleased \ {cap[1]} ELSE unreleased
    /\ scanPc' = "finish"
    /\ UNCHANGED <<scanning, image_paths, files, scanIdx, results, squeue>>
    /\ UNCHANGED <<platform_system, cap, attempts, success, frame_count, camera_runs>>

StopScanning ==
    /\ scanning
    /\ stop_scanning
    /\ UNCHANGED cameraVars

CameraOnly ==
    /\ UNCHANGED <<engineVars, histVars, queue, dialogVars, batchScanVars>>
    /\ UNCHANGED <<hitVars, windowVars, drawVars, logoVars, recordVars, storeVars>>

InitCamera ==
    /\ EngineInit /\ DialogInit /\ WindowInit /\ DrawInit /\ LogoInit /\ RecordInit /\ StoreInit
    /\ ScanFilesInit /\ CameraInit /\ HitInit
    /\ platform_system \in Platforms

NextCamera ==
    \/ ScanCamera /\ CameraOnly
    \/ StopScanning /\ CameraOnly
    \/ CamInit /\ CameraOnly
    \/ CamOpen /\ CameraOnly
    \/ CamOpenCheck /\ CameraOnly
    \/ CamSetup /\ CameraOnly
    \/ CamFrame /\ CameraOnly
    \/ CamFinally /\ CameraOnly
    \/ ScanFinish /\ UNCHANGED cameraVars /\ CameraOnly

SpecCamera == InitCamera /\ [][NextCamera]_vars

(***************************************************************************)
(* The scanner on its own: one file scan, which the caller may stop.       *)
(***************************************************************************)
ScanFiles ==
    /\ scanPc = "idle"
    /\ squeue = <<>>
    /\ \E file_paths \in FileLists : scan_files(file_paths)
    /\ UNCHANGED cameraVars

ScanOnly ==
    /\ UNCHANGED <<engineVars, histVars, queue, dialogVars, batchScanVars>>
    /\ UNCHANGED <<hitVars, windowVars, drawVars, logoVars, recordVars, storeVars>>

NextScan ==
    \/ ScanFiles /\ ScanOnly
    \/ StopScanning /\ ScanOnly
    \/ ScanRun /\ UNCHANGED cameraVars /\ ScanOnly
    \/ ScanCheck /\ UNCHANGED cameraVars /\ ScanOnly
    \/ ScanFile /\ UNCHANGED cameraVars /\ ScanOnly
    \/ ScanEmit /\ UNCHANGED cameraVars /\ ScanOnly
    \/ ScanFinish /\ UNCHANGED cameraVars /\ ScanOnly

SpecScan == Init /\ [][NextScan]_vars

(***************************************************************************)
(* MainWindow: start_scanning with the file list or with the camera, and   *)
(* the slots connected to the scanner's signals: on_qr_scanned for         *)
(* qr_scanned and show_error for error_occurred.  No slot of the window is *)
(* connected to scan_finished.  The button is clicked only when enabled.   *)
(***************************************************************************)
MaxScans == 2

start_scanning_files(file_paths) ==
    /\ file_paths # <<>>
    /\ scan_files(file_paths)
    /\ scan_btn' = FALSE
    /\ UNCHANGED cameraVars

start_scanning_camera ==
    /\ scan_camera
    /\ camera_runs' = camera_runs + 1
    /\ scan_btn' = FALSE

StartScanning ==
    /\ was_scanning = <<>>
    /\ scan_btn
    /\ scans < MaxScans
    /\ scans' = scans + 1
    /\ UNCHANGED was_scanning
    /\ \/ \E file_paths \in FileLists : start_scanning_files(file_paths)
       \/ start_scanning_camera

on_qr_scanned == scan_btn' = TRUE

show_error == UNCHANGED scan_btn

DeliverWindowSignal ==
    /\ was_scanning = <<>>
    /\ squeue # <<>>
    /\ squeue' = Tail(squeue)
    /\ IF Head(squeue).sig = "qr_scanned" THEN on_qr_scanned
       ELSE IF Head(squeue).sig = "error_occurred" THEN show_error
       ELSE UNCHANGED scan_btn
    /\ UNCHANGED <<scanning, image_paths, scanPc, files, scanIdx, results>>
    /\ UNCHANGED <<cameraVars, scans, was_scanning>>

(***************************************************************************)
(* QRCodeScanner.get_available_cameras, called on the interface thread: it *)
(* clears the flag if it was set, sleeps and probes the cameras while the  *)
(* scanner thread keeps running, and sets the flag again in its finally.   *)
(***************************************************************************)
GetCamerasEnter ==
    /\ was_scanning = <<>>
    /\ was_scanning' = <<scanning>>
    /\ IF scanning THEN stop_scanning ELSE UNCHANGED scanVars
    /\ UNCHANGED <<cameraVars, scan_btn, scans>>

GetCamerasReturn ==
    /\ was_scanning # <<>>
    /\ scanning' = IF was_scanning[1] THEN TRUE ELSE scanning
    /\ was_scanning' = <<>>
    /\ UNCHANGED <<image_paths, scanPc, files, scanIdx, results, squeue>>
    /\ UNCHANGED <<cameraVars, scan_btn, scans>>

is_scanning == scanning

ScannerThread ==
    \/ (ScanRun \/ ScanCheck \/ ScanFile \/ ScanEmit \/ ScanFinish) /\ UNCHANGED cameraVars
    \/ CamInit \/ CamOpen \/ CamOpenCheck \/ CamSetup \/ CamFrame \/ CamFinally

WindowOnly ==
    /\ UNCHANGED <<engineVars, histVars, queue, dialogVars, batchScanVars>>
    /\ UNCHANGED <<hitVars, drawVars, logoVars, recordVars, storeVars>>

NextWindow ==
    \/ StartScanning /\ WindowOnly
    \/ DeliverWindowSignal /\ WindowOnly
    \/ GetCamerasEnter /\ WindowOnly
    \/ GetCamerasReturn /\ WindowOnly
    \/ ScannerThread /\ UNCHANGED windowVars /\ WindowOnly

SpecWindow == InitCamera /\ [][NextWindow]_vars

(***************************************************************************)
(* The scanner thread, once started, is scheduled until run() returns, and *)
(* the event loop of the interface thread runs the slot of every queued    *)
(* signal; a call of get_available_cameras returns.                        *)
(***************************************************************************)
SpecWindowLive ==
    /\ SpecWindow
    /\ WF_vars(ScannerThread /\ UNCHANGED windowVars /\ WindowOnly)
    /\ WF_vars(DeliverWindowSignal /\ WindowOnly)
    /\ WF_vars(GetCamerasReturn /\ WindowOnly)

(***************************************************************************)
(* QRCodeScanner._calculate_confidence.  A decoded object has a rect of    *)
(* some width and height, or none, and a polygon of some number of points, *)
(* or none.  The value is kept in ten-thousandths until round(..., 2)      *)
(* turns it into hundredths; no input below falls on a rounding tie.       *)
(***************************************************************************)
Lengths == {0, 3, 10, 40, 100, 200}
PointCounts == {0, 2, 3, 4, 5, 8}
FullArea == 10000

DecodedObjects ==
    {[rect |-> r, polygon |-> g] :
        r \in {<<>>} \cup {<<[width |-> w, height |-> h]>> : w \in Lengths, h \in Lengths},
        g \in {<<>>} \cup {<<n>> : n \in PointCounts}}

Least(a, b) == IF a < b THEN a ELSE b

Round2(tenthousandths) == (tenthousandths + 50) \div 100

size_factor(obj) ==
    IF obj.rect # <<>> /\ obj.rect[1].width > 0 /\ obj.rect[1].height > 0
    THEN Least(obj.rect[1].width * obj.rect[1].height, FullArea)
    ELSE FullArea

point_factor(obj) ==
    IF obj.polygon # <<>> /\ obj.polygon[1] >= 4 THEN Least(obj.polygon[1], 4) ELSE 4

calculate_confidence(obj) == Round2((size_factor(obj) * point_factor(obj)) \div 4)

CalculateConfidence ==
    /\ confidence = <<>>
    /\ confidence' = <<calculate_confidence(decoded_obj)>>
    /\ UNCHANGED decoded_obj

NextObject ==
    /\ confidence # <<>>
    /\ decoded_obj' \in DecodedObjects
    /\ confidence' = <<>>

ConfidenceOnly ==
    /\ UNCHANGED <<engineVars, histVars, queue, dialogVars, scanVars, batchScanVars>>
    /\ UNCHANGED <<cameraVars, windowVars, drawVars, logoVars, recordVars, storeVars>>

InitConfidence ==
    /\ EngineInit /\ DialogInit /\ WindowInit /\ DrawInit /\ LogoInit /\ RecordInit /\ StoreInit
    /\ ScanFilesInit /\ CameraInit /\ platform_system = "Linux"
    /\ decoded_obj \in DecodedObjects
    /\ confidence = <<>>

NextConfidence ==
    \/ CalculateConfidence /\ ConfidenceOnly
    \/ NextObject /\ ConfidenceOnly

SpecConfidence == InitConfidence /\ [][NextConfidence]_vars

(***************************************************************************)
(* BatchProcessor: the handlers of the dialog, each run to completion on   *)
(* the interface thread.                                                   *)
(***************************************************************************)
ShellLists == UNION {[1..n -> ItemKinds] : n \in 1..MaxBatch}

DisconnectSignals == signals_connected' = FALSE

reset_processing ==
    IF ~is_processing /\ current_task = None
    THEN UNCHANGED <<is_processing, current_task, batch_qr_list, batch_total,
                     batch_current, batch_failed, signals_connected>>
    ELSE /\ is_processing' = FALSE
         /\ current_task' = None
         /\ batch_qr_list' = <<>>
         /\ batch_total' = 0
         /\ batch_current' = 0
         /\ batch_failed' = 0
         /\ DisconnectSignals

start_batch_generate(list) ==
    /\ batch_qr_list' = list
    /\ batch_total' = Len(list)
    /\ batch_current' = 0
    /\ batch_failed' = 0
    /\ is_processing' = TRUE
    /\ current_task' = "generate"
    /\ signals_connected' = TRUE
    /\ generate_batch(list)
    /\ UNCHANGED <<queue, summary, scanVars, batchScanVars>>

start_batch_scan(paths) ==
    /\ is_processing' = TRUE
    /\ current_task' = "scan"
    /\ scan_folder(paths)
    /\ UNCHANGED <<batch_qr_list, batch_total, batch_current, batch_failed,
                   signals_connected, summary>>
    /\ UNCHANGED <<engineVars, histVars, queue, batchScanVars>>

StartGenerate ==
    /\ ~is_processing
    /\ starts < MaxStarts
    /\ starts' = starts + 1
    /\ halted' = <<>>
    /\ \E list \in ShellLists : start_batch_generate(list)

StartScan ==
    /\ ~is_processing
    /\ starts < MaxStarts
    /\ starts' = starts + 1
    /\ UNCHANGED halted
    /\ \E paths \in FileLists : start_batch_scan(paths)

EngineAt ==
    IF pc \in {"idle", "exit", "single"} THEN <<>>
    ELSE <<[run |-> runs, upto |-> IF pc = "item" THEN idx + 1
                                  ELSE IF pc \in {"run", "batch_start"} THEN 0 ELSE idx]>>

PauseProcessing ==
    /\ is_processing
    /\ IF current_task = "scan" THEN stop_scanning ELSE UNCHANGED scanVars
    /\ halted' = IF current_task = "generate" THEN EngineAt ELSE halted
    /\ is_processing' = FALSE
    /\ UNCHANGED <<current_task, batch_qr_list, batch_total, batch_current,
                   batch_failed, signals_connected, summary, starts>>
    /\ UNCHANGED <<engineVars, histVars, queue, batchScanVars>>

StopProcessing ==
    /\ is_processing
    /\ IF current_task = "scan" THEN stop_scanning ELSE UNCHANGED scanVars
    /\ halted' = IF current_task = "generate" THEN EngineAt ELSE halted
    /\ reset_processing
    /\ UNCHANGED <<summary, starts>>
    /\ UNCHANGED <<engineVars, histVars, queue, batchScanVars>>

(***************************************************************************)
(* _on_batch_finished: the summary counts, the disconnect, the save of the *)
(* first batch_current records and the reset of the dialog's state.        *)
(***************************************************************************)
Min(a, b) == IF a < b THEN a ELSE b

SuccessCount(completed) == completed

on_batch_finished(completed) ==
    /\ summary' = Append(summary,
                         [success |-> SuccessCount(completed),
                          failed |-> batch_failed,
                          batch |-> batch_qr_list,
                          saved |-> Min(completed, Len(batch_qr_list))])
    /\ DisconnectSignals
    /\ is_processing' = FALSE
    /\ current_task' = None
    /\ batch_qr_list' = <<>>
    /\ batch_total' = 0
    /\ batch_current' = 0
    /\ batch_failed' = 0

(***************************************************************************)
(* The slots _on_batch_progress and _on_batch_error, run for the signal at *)
(* the head of the queue.                                                  *)
(***************************************************************************)
on_batch_progress(completed, tot) ==
    IF completed = tot
    THEN on_batch_finished(completed)
    ELSE /\ batch_current' = completed
         /\ batch_total' = tot
         /\ UNCHANGED <<is_processing, current_task, batch_qr_list, batch_failed,
                        signals_connected, summary>>

on_batch_error ==
    /\ batch_failed' = batch_failed + 1
    /\ UNCHANGED <<is_processing, current_task, batch_qr_list, batch_total,
                   batch_current, signals_connected, summary>>

DeliverSignal ==
    /\ queue # <<>>
    /\ queue' = Tail(queue)
    /\ IF Head(queue).sig = "batch_completed"
       THEN on_batch_progress(Head(queue).a, Head(queue).b)
       ELSE on_batch_error
    /\ UNCHANGED <<starts, halted, engineVars, histVars, scanVars, batchScanVars>>

(***************************************************************************)
(* A signal queued before the dialog disconnected: whether its slot still  *)
(* runs is left to the signal machinery; here it may also be discarded.    *)
(***************************************************************************)
DropSignal ==
    /\ queue # <<>>
    /\ ~signals_connected
    /\ queue' = Tail(queue)
    /\ UNCHANGED <<dialogVars, engineVars, histVars, scanVars, batchScanVars>>

(***************************************************************************)
(* QRCodeBatchScanner._handle_results / _handle_error / _handle_finish and *)
(* the dialog's on_scan_finish, which saves the list it is given.          *)
(***************************************************************************)
on_scan_finish(res, saved_ok) ==
    /\ exported' = IF saved_ok THEN Append(exported, res) ELSE exported
    /\ IF saved_ok
       THEN /\ is_processing' = FALSE
            /\ current_task' = None
            /\ UNCHANGED <<batch_qr_list, batch_total, batch_current, batch_failed,
                           signals_connected>>
       ELSE reset_processing

DeliverScanSignal ==
    /\ squeue # <<>>
    /\ squeue' = Tail(squeue)
    /\ IF Head(squeue).sig = "qr_scanned"
       THEN /\ bsResults' = bsResults \o Head(squeue).res
            /\ UNCHANGED <<exported, is_processing, current_task, batch_qr_list,
                           batch_total, batch_current, batch_failed, signals_connected>>
       ELSE IF Head(squeue).sig = "scan_finished"
       THEN /\ \E saved_ok \in BOOLEAN : on_scan_finish(bsResults, saved_ok)
            /\ UNCHANGED bsResults
       ELSE UNCHANGED <<bsResults, exported, is_processing, current_task, batch_qr_list,
                        batch_total, batch_current, batch_failed, signals_connected>>
    /\ UNCHANGED <<summary, starts, halted, scanning, image_paths, scanPc, files, scanIdx,
                   results>>
    /\ UNCHANGED <<engineVars, histVars, queue>>

(***************************************************************************)
(* The dialog with its engine and its batch scanner.                       *)
(***************************************************************************)
EngineStep == Worker /\ UNCHANGED <<dialogVars, scanVars, batchScanVars>>

ScannerStep == ScanWorker /\ UNCHANGED <<engineVars, histVars, queue, dialogVars, batchScanVars>>

NextShell ==
    \/ StartGenerate /\ DataIdle
    \/ StartScan /\ DataIdle
    \/ PauseProcessing /\ DataIdle
    \/ StopProcessing /\ DataIdle
    \/ DeliverSignal /\ DataIdle
    \/ DropSignal /\ DataIdle
    \/ DeliverScanSignal /\ DataIdle
    \/ EngineStep /\ DataIdle
    \/ ScannerStep /\ DataIdle

SpecShell == Init /\ [][NextShell]_vars

(***************************************************************************)
(* The dialog used for generation only.  The worker thread, once started,  *)
(* is scheduled until run() returns, and the interface thread's event loop *)
(* runs the slot of every queued signal; the user's clicks are not forced. *)
(***************************************************************************)
NextGenerate ==
    \/ StartGenerate /\ DataIdle
    \/ PauseProcessing /\ DataIdle
    \/ StopProcessing /\ DataIdle
    \/ DeliverSignal /\ DataIdle
    \/ DropSignal /\ DataIdle
    \/ EngineStep /\ DataIdle

SpecGenerate == Init /\ [][NextGenerate]_vars

SpecGenerateLive ==
    /\ SpecGenerate
    /\ WF_vars(EngineStep /\ DataIdle)
    /\ WF_vars(DeliverSignal /\ DataIdle)

(***************************************************************************)
(* QRCodeData constructed from arbitrary arguments.                        *)
(***************************************************************************)
Construct ==
    /\ record = <<>>
    /\ record' = <<QRCodeData(ctor_args)>>
    /\ UNCHANGED <<ctor_args, verdict>>

NewArguments ==
    /\ record # <<>>
    /\ ctor_args' \in CtorInputs
    /\ record' = <<>>
    /\ UNCHANGED verdict

OthersIdle ==
    UNCHANGED <<engineVars, histVars, queue, dialogVars, scanVars, batchScanVars, cameraVars,
                hitVars, windowVars, drawVars, logoVars>>

InitRecord ==
    /\ EngineInit /\ DialogInit /\ WindowInit /\ DrawInit /\ LogoInit /\ ScannerInit /\ StoreInit
    /\ ctor_args \in CtorInputs
    /\ record = <<>>
    /\ verdict = <<>>

NextRecord ==
    \/ Construct /\ OthersIdle /\ UNCHANGED storeVars
    \/ NewArguments /\ OthersIdle /\ UNCHANGED storeVars

SpecRecord == InitRecord /\ [][NextRecord]_vars

(***************************************************************************)
(* QRCodeData.validate() called on a constructed record.                   *)
(***************************************************************************)
Validate ==
    /\ record # <<>>
    /\ verdict = <<>>
    /\ verdict' = <<validate_result(record[1])>>
    /\ UNCHANGED <<ctor_args, record>>

InitValidate ==
    /\ EngineInit /\ DialogInit /\ WindowInit /\ DrawInit /\ LogoInit /\ ScannerInit /\ StoreInit
    /\ ctor_args \in ValidateInputs
    /\ record = <<QRCodeData(ctor_args)>>
    /\ verdict = <<>>

NextValidate == Validate /\ OthersIdle /\ UNCHANGED storeVars

SpecValidate == InitValidate /\ [][NextValidate]_vars

(***************************************************************************)
(* The logo step of the render pipeline, for a record the encoding and     *)
(* image libraries accept.  "logo.png" is a readable image file and        *)
(* "missing.png" names no file.  A render is reported by how it ended,     *)
(* with what message, and whether the logo was pasted onto the image.      *)
(***************************************************************************)
ExistingFiles == {"logo.png"}

os_path_exists(path) == path \in ExistingFiles

Rendered(entry, outcome, message, logo) ==
    [entry |-> entry, outcome |-> outcome, message |-> message, logo |-> logo]

add_logo(qr_record) ==
    IF Falsy(qr_record.logo_path)
    THEN Rendered("_add_logo", "returned", None, FALSE)
    ELSE IF ~os_path_exists(qr_record.logo_path)
    THEN Rendered("_add_logo", "raised", "FileNotFoundError", FALSE)
    ELSE Rendered("_add_logo", "returned", None, TRUE)

generate_single(qr_record, generate_logo) ==
    IF ~validate_result(qr_record).ok
    THEN Rendered("_generate_single", "error_occurred", validate_message(qr_record), FALSE)
    ELSE IF generate_logo /\ ~Falsy(qr_record.logo_path) /\ os_path_exists(qr_record.logo_path)
    THEN [add_logo(qr_record) EXCEPT !.entry = "_generate_single", !.outcome = "qr_generated"]
    ELSE Rendered("_generate_single", "qr_generated", None, FALSE)

generate_batch_item(qr_record) ==
    IF ~Falsy(qr_record.logo_path) /\ os_path_exists(qr_record.logo_path)
    THEN [add_logo(qr_record) EXCEPT !.entry = "_generate_batch", !.outcome = "saved"]
    ELSE Rendered("_generate_batch", "saved", None, FALSE)

RenderInputs ==
    {[BaseArgs EXCEPT !.logo_path = lp, !.logo_scale = ls, !.foreground_color = fg,
                      !.size = sz, !.output_format = of] :
        lp \in {None, "", "logo.png", "missing.png"}, ls \in {10, 200, 900},
        fg \in {"#000000", "red"}, sz \in {10, 50}, of \in {"PNG", "SVG"}}

AddLogo ==
    /\ verdict = <<>>
    /\ verdict' = <<add_logo(record[1])>>
    /\ UNCHANGED <<ctor_args, record>>

GenerateSingle ==
    /\ verdict = <<>>
    /\ \E generate_logo \in BOOLEAN : verdict' = <<generate_single(record[1], generate_logo)>>
    /\ UNCHANGED <<ctor_args, record>>

GenerateBatchItem ==
    /\ verdict = <<>>
    /\ verdict' = <<generate_batch_item(record[1])>>
    /\ UNCHANGED <<ctor_args, record>>

InitRender ==
    /\ EngineInit /\ DialogInit /\ WindowInit /\ DrawInit /\ LogoInit /\ ScannerInit /\ StoreInit
    /\ ctor_args \in RenderInputs
    /\ record = <<QRCodeData(ctor_args)>>
    /\ verdict = <<>>

NextRender ==
    \/ AddLogo /\ OthersIdle /\ UNCHANGED storeVars
    \/ GenerateSingle /\ OthersIdle /\ UNCHANGED storeVars
    \/ GenerateBatchItem /\ OthersIdle /\ UNCHANGED storeVars

SpecRender == InitRender /\ [][NextRender]_vars

(***************************************************************************)
(* QRCodeEngine._generate_gradient_qr: the canvas in the background colour *)
(* and the nested loop over the modules, one module per step, in row       *)
(* order.  Ratios are in thousandths, cut off below; a colour is a triple  *)
(* of channel values.  ImageDraw.rectangle fills every pixel from its      *)
(* first corner to its second corner, both included, inside the image.     *)
(***************************************************************************)
MaxSide == 3

Matrices == UNION {[1..n -> [1..n -> BOOLEAN]] : n \in 2..MaxSide}

ModuleSizes == {1, 2}

GradientTypes == {"linear", "radial"}

background_color == <<255, 255, 255>>
color_start == <<255, 0, 0>>
color_end == <<0, 0, 255>>

Isqrt(v) == CHOOSE r \in 0..1000 : r * r <= v /\ v < (r + 1) * (r + 1)

gradient_ratio(type, x, y, side) ==
    IF type = "radial"
    THEN LET center == side \div 2
             distance2 == (x - center) * (x - center) + (y - center) * (y - center)
             max_distance2 == (side * side) * 2
         IN  IF max_distance2 > 0 THEN Isqrt((1000000 * distance2) \div max_distance2) ELSE 0
    ELSE (1000 * (x + y)) \div (side * 2)

Channel(from, to, r) == (from * (1000 - r) + to * r) \div 1000

Interpolate(r) ==
    <<Channel(color_start[1], color_end[1], r),
      Channel(color_start[2], color_end[2], r),
      Channel(color_start[3], color_end[3], r)>>

NewImage(side) == [p \in (0..side - 1) \X (0..side - 1) |-> background_color]

rectangle(img, x0, y0, x1, y1, fill) ==
    [p \in DOMAIN img |-> IF p[1] \in x0..x1 /\ p[2] \in y0..y1 THEN fill ELSE img[p]]

DrawModule ==
    /\ cursor < Len(matrix) * Len(matrix)
    /\ LET y == cursor \div Len(matrix)
           x == cursor % Len(matrix)
       IN  IF matrix[y + 1][x + 1]
           THEN LET r == gradient_ratio(gradient_type, x, y, Len(matrix))
                IN  /\ ratio' = <<[x |-> x, y |-> y, value |-> r]>>
                    /\ image' = rectangle(image, x * module_size, y * module_size,
                                          (x + 1) * module_size, (y + 1) * module_size,
                                          Interpolate(r))
           ELSE UNCHANGED <<ratio, image>>
    /\ cursor' = cursor + 1
    /\ UNCHANGED <<matrix, module_size, gradient_type>>

InitGradient ==
    /\ EngineInit /\ DialogInit /\ WindowInit /\ LogoInit /\ ScannerInit /\ RecordInit
    /\ StoreInit
    /\ matrix \in Matrices
    /\ module_size \in ModuleSizes
    /\ gradient_type \in GradientTypes
    /\ image = NewImage(Len(matrix) * module_size)
    /\ cursor = 0
    /\ ratio = <<>>

NextGradient ==
    /\ DrawModule
    /\ UNCHANGED <<engineVars, histVars, queue, dialogVars, scanVars, batchScanVars>>
    /\ UNCHANGED <<cameraVars, hitVars, windowVars, logoVars, recordVars, storeVars>>

SpecGradient == InitGradient /\ [][NextGradient]_vars

(***************************************************************************)
(* QRCodeEngine._add_logo: the side length the logo is resized to, from    *)
(* the size of the rendered image and the record's logo_scale.  The        *)
(* product is taken exactly and cut off by int().                          *)
(***************************************************************************)
CanvasSides == {21, 30, 39, 40, 41, 100, 250}

ScaleRatios == {0, 50, 200, 333, 500, 1000}

MinLogoSize == 20

LogoSideFloorLast(size, scale) ==
    LET smaller == Min(size[1], size[2])
        raw == (smaller * scale) \div 1000
        capped == IF raw > smaller \div 2 THEN smaller \div 2 ELSE raw
    IN  IF capped < MinLogoSize THEN MinLogoSize ELSE capped

LogoSide(size, scale) ==
    LET smaller == Min(size[1], size[2])
        raw == (smaller * scale) \div 1000
        floored == IF raw < MinLogoSize THEN MinLogoSize ELSE raw
    IN  IF floored > smaller \div 2 THEN smaller \div 2 ELSE floored

ResizeLogo ==
    /\ logo_size = <<>>
    /\ logo_size' = <<LogoSide(qr_image_size, scale_ratio)>>
    /\ UNCHANGED <<qr_image_size, scale_ratio>>

InitLogo ==
    /\ EngineInit /\ DialogInit /\ WindowInit /\ DrawInit /\ ScannerInit /\ RecordInit
    /\ StoreInit
    /\ qr_image_size \in CanvasSides \X CanvasSides
    /\ scale_ratio \in ScaleRatios
    /\ logo_size = <<>>

NextLogo ==
    /\ ResizeLogo
    /\ UNCHANGED <<engineVars, histVars, queue, dialogVars, scanVars, batchScanVars>>
    /\ UNCHANGED <<cameraVars, hitVars, windowVars, drawVars, recordVars, storeVars>>

SpecLogo == InitLogo /\ [][NextLogo]_vars

(***************************************************************************)
(* QRCodeDatabase: the public operations.  Each opens a connection, which  *)
(* fails under the fault "connect"; under the fault "execute" a statement  *)
(* or the commit fails.  Either way sqlite3.Error is raised inside the try *)
(* block and the table is left as it was.                                  *)
(***************************************************************************)
Faults == {"none", "connect", "execute"}

ConnBoundBeforeTry(op) == op \in {"save_qrcode", "load_qrcode"}

(***************************************************************************)
(* "finally: if conn: conn.close()" reads conn, which is unbound when the  *)
(* connect failed and nothing was assigned to conn before the try block.   *)
(***************************************************************************)
Outcome(op, fault) ==
    IF fault = "connect" /\ ~ConnBoundBeforeTry(op) THEN "raised" ELSE "returned"

Called(op, arg, fault, ret) ==
    lastOp' = [op |-> op, arg |-> arg, fault |-> fault, outcome |-> Outcome(op, fault),
               ret |-> IF Outcome(op, fault) = "raised" THEN None ELSE ret]

InsertPlain(rows, row) == rows \cup {row}

InsertOrReplace(rows, row) == {x \in rows : x.id # row.id} \cup {row}

save_qrcode(qr_record, fault) ==
    /\ Called("save_qrcode", qr_record.id, fault, fault = "none")
    /\ IF fault = "none"
       THEN /\ qrcodes' = InsertOrReplace(qrcodes, Row(qr_record, has_logo_scale))
            /\ shadow' = [shadow EXCEPT ![qr_record.id] = <<qr_record>>]
            /\ resaved' = [resaved EXCEPT ![qr_record.id] =
                              @ \/ (shadow[qr_record.id] # <<>> /\ shadow[qr_record.id] # <<qr_record>>)]
       ELSE UNCHANGED <<qrcodes, shadow, resaved>>
    /\ UNCHANGED <<has_logo_scale, templates, next_template_id>>

RowsOf(qrcode_id) == {row \in qrcodes : row.id = qrcode_id}

load_qrcode(qrcode_id, fault) ==
    /\ IF fault = "none" /\ RowsOf(qrcode_id) # {}
       THEN \E row \in RowsOf(qrcode_id) :
                Called("load_qrcode", qrcode_id, fault,
                       <<row_to_qrcode_data(row, has_logo_scale)>>)
       ELSE Called("load_qrcode", qrcode_id, fault, <<>>)
    /\ UNCHANGED <<has_logo_scale, qrcodes, templates, next_template_id, shadow, resaved>>

(***************************************************************************)
(* ORDER BY created_at DESC: every order of the rows with no later row     *)
(* newer than an earlier one.                                              *)
(***************************************************************************)
NewestFirst(rows) ==
    {order \in [1..Cardinality(rows) -> rows] :
        /\ \A i, j \in DOMAIN order : i # j => order[i] # order[j]
        /\ \A i, j \in DOMAIN order : i < j => order[i].created_at >= order[j].created_at}

Decoded(order) == [i \in DOMAIN order |-> row_to_qrcode_data(order[i], has_logo_scale)]

get_all_qrcodes(fault) ==
    /\ IF fault = "none"
       THEN \E order \in NewestFirst(qrcodes) :
                Called("get_all_qrcodes", None, fault, Decoded(order))
       ELSE Called("get_all_qrcodes", None, fault, <<>>)
    /\ UNCHANGED <<has_logo_scale, qrcodes, templates, next_template_id, shadow, resaved>>

delete_qrcode(qrcode_id, fault) ==
    /\ Called("delete_qrcode", qrcode_id, fault, fault = "none" /\ RowsOf(qrcode_id) # {})
    /\ IF fault = "none"
       THEN /\ qrcodes' = qrcodes \ RowsOf(qrcode_id)
            /\ shadow' = [shadow EXCEPT ![qrcode_id] = <<>>]
            /\ resaved' = [resaved EXCEPT ![qrcode_id] = FALSE]
       ELSE UNCHANGED <<qrcodes, shadow, resaved>>
    /\ UNCHANGED <<has_logo_scale, templates, next_template_id>>

Matching(keyword, qr_type, tags) ==
    {row \in qrcodes :
        /\ ~Falsy(keyword) => KeywordCondition(row, keyword)
        /\ qr_type # None => row.qr_type = qr_type
        /\ \A i \in DOMAIN tags : TagCondition(row, tags[i])}

search_qrcodes(keyword, qr_type, tags, fault) ==
    /\ LET found == Matching(keyword, qr_type, tags)
           arg == [keyword |-> keyword, qr_type |-> qr_type, tags |-> tags]
       IN IF fault = "none"
          THEN \E order \in NewestFirst(found) :
                   Called("search_qrcodes", arg, fault,
                          [found |-> Decoded(Page(order, DefaultLimit, DefaultOffset)),
                           total |-> Cardinality(found)])
          ELSE Called("search_qrcodes", arg, fault, [found |-> <<>>, total |-> 0])
    /\ UNCHANGED <<has_logo_scale, qrcodes, templates, next_template_id, shadow, resaved>>

(***************************************************************************)
(* The templates table: id INTEGER PRIMARY KEY AUTOINCREMENT.              *)
(***************************************************************************)
TemplateNames == {"a", "b"}
Categories == {"General", "Other"}

save_template(name, category, fault) ==
    /\ Called("save_template", name, fault, fault = "none")
    /\ IF fault = "none"
       THEN /\ templates' = templates \cup
                    {[id |-> next_template_id, name |-> name, category |-> category]}
            /\ next_template_id' = next_template_id + 1
       ELSE UNCHANGED <<templates, next_template_id>>
    /\ UNCHANGED <<has_logo_scale, qrcodes, shadow, resaved>>

ByName(rows) ==
    {order \in [1..Cardinality(rows) -> rows] :
        /\ \A i, j \in DOMAIN order : i # j => order[i] # order[j]
        /\ \A i, j \in DOMAIN order :
               i < j => ~(order[i].name = "b" /\ order[j].name = "a")}

get_templates(category, fault) ==
    /\ LET found == {row \in templates : category # None => row.category = category}
       IN IF fault = "none"
          THEN \E order \in ByName(found) : Called("get_templates", category, fault, order)
          ELSE Called("get_templates", category, fault, <<>>)
    /\ UNCHANGED <<has_logo_scale, qrcodes, templates, next_template_id, shadow, resaved>>

TemplatesOf(template_id) == {row \in templates : row.id = template_id}

get_template(template_id, fault) ==
    /\ IF fault = "none" /\ TemplatesOf(template_id) # {}
       THEN \E row \in TemplatesOf(template_id) :
                Called("get_template", template_id, fault, <<row>>)
       ELSE Called("get_template", template_id, fault, <<>>)
    /\ UNCHANGED <<has_logo_scale, qrcodes, templates, next_template_id, shadow, resaved>>

delete_template(template_id, fault) ==
    /\ Called("delete_template", template_id, fault,
              fault = "none" /\ TemplatesOf(template_id) # {})
    /\ templates' = IF fault = "none" THEN templates \ TemplatesOf(template_id)
                    ELSE templates
    /\ UNCHANGED <<has_logo_scale, qrcodes, next_template_id, shadow, resaved>>

get_statistics(fault) ==
    /\ Called("get_statistics", None, fault,
              IF fault = "none"
              THEN [total_qrcodes |-> Cardinality(qrcodes),
                    qrcodes_by_type |->
                        [t \in {row.qr_type : row \in qrcodes} |->
                            Cardinality({row \in qrcodes : row.qr_type = t})],
                    total_templates |-> Cardinality(templates)]
              ELSE <<>>)
    /\ UNCHANGED <<has_logo_scale, qrcodes, templates, next_template_id, shadow, resaved>>

(***************************************************************************)
(* The store used through its public operations, with storage faults.      *)
(***************************************************************************)
SaveQrcode == \E id \in Ids, fault \in Faults : \E r \in Records(id) : save_qrcode(r, fault)

LoadQrcode == \E id \in Ids, fault \in Faults : load_qrcode(id, fault)

GetAllQrcodes == \E fault \in Faults : get_all_qrcodes(fault)

DeleteQrcode == \E id \in Ids, fault \in Faults : delete_qrcode(id, fault)

SearchQrcodes ==
    \E keyword \in Keywords, t \in TypeFilters, tags \in TagFilters, fault \in Faults :
        search_qrcodes(keyword, t, tags, fault)

SaveTemplate ==
    /\ next_template_id <= MaxTemplates
    /\ \E name \in TemplateNames, fault \in Faults : save_template(name, "General", fault)

GetTemplates == \E c \in {None} \cup Categories, fault \in Faults : get_templates(c, fault)

GetTemplate == \E id \in 1..MaxTemplates, fault \in Faults : get_template(id, fault)

DeleteTemplate == \E id \in 1..MaxTemplates, fault \in Faults : delete_template(id, fault)

GetStatistics == \E fault \in Faults : get_statistics(fault)

StoreOnly == OthersIdle /\ UNCHANGED recordVars

NextStore ==
    \/ SaveQrcode /\ StoreOnly
    \/ LoadQrcode /\ StoreOnly
    \/ GetAllQrcodes /\ StoreOnly
    \/ DeleteQrcode /\ StoreOnly
    \/ SearchQrcodes /\ StoreOnly
    \/ SaveTemplate /\ StoreOnly
    \/ GetTemplates /\ StoreOnly
    \/ GetTemplate /\ StoreOnly
    \/ DeleteTemplate /\ StoreOnly
    \/ GetStatistics /\ StoreOnly

SpecStore == Init /\ [][NextStore]_vars

(***************************************************************************)
(* TemplateManager.edit_template, once the editor was accepted: the        *)
(* selected template is deleted and the edited one is saved as a new row.  *)
(* A call of the store that raises ends edit_template at that call.        *)
(***************************************************************************)
MaxEdits == 2

edit_template(current, name, category, fault_delete, fault_save) ==
    LET delete_raised == Outcome("delete_template", fault_delete) = "raised"
        after_delete == IF fault_delete = "none" THEN templates \ TemplatesOf(current.id)
                        ELSE templates
        save_raised == ~delete_raised /\ Outcome("save_template", fault_save) = "raised"
        saved == ~delete_raised /\ fault_save = "none"
    IN  /\ templates' = IF saved
                        THEN after_delete \cup
                                 {[id |-> next_template_id, name |-> name,
                                   category |-> category]}
                        ELSE after_delete
        /\ next_template_id' = IF saved THEN next_template_id + 1 ELSE next_template_id
        /\ lastOp' = [op |-> "edit_template",
                      arg |-> [original |-> current, name |-> name, category |-> category],
                      fault |-> <<fault_delete, fault_save>>,
                      outcome |-> IF delete_raised \/ save_raised THEN "raised"
                                  ELSE "returned",
                      ret |-> None]
        /\ UNCHANGED <<has_logo_scale, qrcodes, shadow, resaved>>

EditTemplate ==
    /\ next_template_id <= MaxTemplates + MaxEdits
    /\ \E current \in templates, name \in TemplateNames, category \in Categories,
          fault_delete \in Faults, fault_save \in Faults :
           edit_template(current, name, category, fault_delete, fault_save)

NextTemplates ==
    \/ SaveTemplate /\ StoreOnly
    \/ EditTemplate /\ StoreOnly
    \/ DeleteTemplate /\ StoreOnly

SpecTemplates == Init /\ [][NextTemplates]_vars

(***************************************************************************)
(* A database file that holds one row written by hand, read back through   *)
(* load_qrcode and get_all_qrcodes.  The table lacks the logo_scale column *)
(* when the ALTER TABLE of init_database failed.                           *)
(***************************************************************************)
InitDecode ==
    /\ EngineInit /\ DialogInit /\ WindowInit /\ DrawInit /\ LogoInit /\ ScannerInit /\ RecordInit
    /\ has_logo_scale \in BOOLEAN
    /\ \E row \in RawRows :
           qrcodes = {IF has_logo_scale THEN row ELSE [row EXCEPT !.logo_scale = NullNumber]}
    /\ templates = {}
    /\ next_template_id = 1
    /\ lastOp = NoOp
    /\ shadow = [id \in Ids |-> <<>>]
    /\ resaved = [id \in Ids |-> FALSE]

NextDecode ==
    \/ LoadQrcode /\ StoreOnly
    \/ GetAllQrcodes /\ StoreOnly

SpecDecode == InitDecode /\ [][NextDecode]_vars

(***************************************************************************)
(* Reading the signals of the current run.                                 *)
(***************************************************************************)
BatchRun == emitted # <<>> /\ emitted[1].msg = "start"

RunOver == pc \in {"exit", "idle"}

CompletedEvents == {p \in 1..Len(emitted) : emitted[p].sig = "batch_completed"}

ErrorEvents == {p \in 1..Len(emitted) : emitted[p].sig = "error_occurred"}

CompleteEvents == {p \in 1..Len(emitted) : emitted[p].msg = "complete"}

\* The position of the item an event reports (0: none).
ItemOf(e) ==
    IF e.sig = "batch_completed" THEN e.a
    ELSE IF e.msg \in {"generating", "item"} THEN e.s
    ELSE 0

\* stop() was called between two items, after item stopAt and before the
\* poll for the next one, and items were left.
StoppedBetweenItems ==
    /\ BatchRun
    /\ stopAt >= 0
    /\ stopPc \in {"run", "batch_start", "check"}
    /\ stopAt < total

\* stop() was called before the run reached the test that guards the
\* completion notification.
StoppedInTime == BatchRun /\ stopPc \in {"run", "batch_start", "check", "item", "final"}

Thm_C2_ProgressBeforeComplete ==
    BatchRun =>
        /\ \A p \in CompleteEvents : p = Len(emitted)
        /\ (StoppedInTime /\ RunOver) =>
              /\ CompleteEvents = {}
              /\ emitted[Len(emitted)] = BatchCompleted(idx, total)

Wit_C2_StoppedRunEnded ==
    /\ pc = "idle"
    /\ StoppedInTime
    /\ stopPc = "item"
    /\ 0 < idx
    /\ idx < total

(***************************************************************************)
(* C3: every batch run that is not stopped eventually ends having emitted  *)
(* the final summary, whose numbers are the count of items generated and   *)
(* the total (the difference being the failures), however many items       *)
(* failed.                                                                 *)
(***************************************************************************)
Summary ==
    \E p \in CompleteEvents :
        /\ emitted[p].s = Cardinality(written)
        /\ emitted[p].t = Len(items)
        /\ emitted[p].t - emitted[p].s = Cardinality(ErrorEvents)

Thm_C6_MonotoneCounts ==
    \A p, q \in CompletedEvents : p < q => emitted[p].a <= emitted[q].a

Wit_C6_CancelAfterProgress ==
    /\ pc = "idle"
    /\ StoppedBetweenItems
    /\ Cardinality(CompletedEvents) >= 3
    /\ Cardinality(ErrorEvents) >= 1


(***************************************************************************)
(* C4: when an item of a batch fails, the rest of the batch is processed,  *)
(* the failure is reported, and the counts reported for the batch count    *)
(* the item as failed and not as successful: the success count of the      *)
(* dialog's summary for the batch it holds is at most the number of items  *)
(* of that batch that did not fail.                                        *)
(***************************************************************************)
GoodItems(list) == {i \in DOMAIN list : list[i] # "bad"}

Cex_C4_FailedNotCountedSuccessful ==
    \A n \in DOMAIN summary :
        summary[n].batch # <<>> =>
            summary[n].success <= Cardinality(GoodItems(summary[n].batch))

(***************************************************************************)
(* C5: at most one long-running task is active in the shell at any time:   *)
(* the generation thread and the scan thread never run together.           *)
(***************************************************************************)
Cex_C5_OneTaskAtATime == ~(pc # "idle" /\ scanPc # "idle")

(***************************************************************************)
(* C7: no public operation of the store lets an exception reach its caller *)
(* when the storage engine fails, the failure to open the file included:   *)
(* every call returns.                                                     *)
(***************************************************************************)
Cex_C7_NoExceptionReachesCaller == lastOp.outcome = "returned"

(***************************************************************************)
(* Equality of a saved record and the loaded one: every field is equal,    *)
(* except that an optional text field the saved record left unset (None or *)
(* the empty string) may come back as its trivial default.                 *)
(***************************************************************************)
RequiredFields ==
    {"id", "data", "qr_type", "version", "error_correction", "size", "border",
     "foreground_color", "background_color", "logo_scale", "gradient_type",
     "created_at", "tags"}

TrivialDefaults ==
    [logo_path |-> {None, ""}, gradient_start |-> {None, ""}, gradient_end |-> {None, ""},
     notes |-> {None, ""}, output_format |-> {"PNG"}]

RoundTripEqual(saved, loaded) ==
    /\ \A f \in RequiredFields : loaded[f] = saved[f]
    /\ \A f \in DOMAIN TrivialDefaults :
           IF Falsy(saved[f]) THEN loaded[f] \in TrivialDefaults[f]
           ELSE loaded[f] = saved[f]

LoadedSaved ==
    /\ lastOp.op = "load_qrcode"
    /\ lastOp.fault = "none"
    /\ shadow[lastOp.arg] # <<>>

Thm_C9_Upsert ==
    \A id \in Ids :
        resaved[id] =>
            /\ Cardinality(RowsOf(id)) = 1
            /\ (lastOp.op = "load_qrcode" /\ lastOp.arg = id /\ lastOp.fault = "none") =>
                   /\ lastOp.ret # <<>>
                   /\ RoundTripEqual(shadow[id][1], lastOp.ret[1])

Wit_C9_LoadAfterSecondSave ==
    /\ resaved["q1"]
    /\ lastOp.op = "load_qrcode" /\ lastOp.arg = "q1" /\ lastOp.fault = "none"
    /\ lastOp.ret # <<>>
    /\ lastOp.ret[1].notes = "memo"

ExactlyOneGradientColour(r) ==
    (r.gradient_start \in {None, ""}) # (r.gradient_end \in {None, ""})

MentionsBothColours(message) == message = "gradient needs both start and end colour"

PassesEarlierChecks(r) ==
    /\ r.data \notin {None, ""}
    /\ r.size \in 1..50 /\ r.border \in 0..10 /\ r.version \in 0..40
    /\ r.error_correction \in {"L", "M", "Q", "H"}
    /\ r.logo_scale \in 50..500
    /\ {r.foreground_color, r.background_color} \subseteq ValidColors
    /\ {r.gradient_start, r.gradient_end} \subseteq ValidColors \cup {None, ""}

Cex_C12_InvalidNeverRendered ==
    /\ \A i \in written : items[i] # "invalid"
    /\ qr_data = "invalid" => \A p \in DOMAIN emitted : emitted[p].sig # "qr_generated"

(***************************************************************************)
(* Searching the store.                                                    *)
(***************************************************************************)
Contains(text, part) ==
    \E i \in 1..(Len(text) - Len(part) + 1) : SubSeq(text, i, i + Len(part) - 1) = part

Stored == {shadow[id][1] : id \in {x \in Ids : shadow[x] # <<>>}}

HasKeyword(qr_record, keyword) ==
    \/ Contains(Spell[qr_record.data], Spell[keyword])
    \/ qr_record.notes # None /\ Contains(Spell[qr_record.notes], Spell[keyword])

FoundIds == {lastOp.ret.found[i].id : i \in DOMAIN lastOp.ret.found}

KeywordSearchReturned ==
    /\ lastOp.op = "search_qrcodes" /\ lastOp.fault = "none"
    /\ lastOp.arg.keyword # None /\ lastOp.arg.qr_type = None /\ lastOp.arg.tags = <<>>

TagSearchReturned ==
    /\ lastOp.op = "search_qrcodes" /\ lastOp.fault = "none"
    /\ lastOp.arg.tags # <<>>

SameLetter(a, b) ==
    a = b \/ \E i \in DOMAIN UpperCase : {a, b} = {UpperCase[i], LowerCase[i]}

ContainsIgnoringCase(text, part) ==
    \E i \in 1..(Len(text) - Len(part) + 1) :
        \A k \in DOMAIN part : SameLetter(text[i + k - 1], part[k])

HasKeywordIgnoringCase(qr_record, keyword) ==
    \/ ContainsIgnoringCase(Spell[qr_record.data], Spell[keyword])
    \/ qr_record.notes # None /\ ContainsIgnoringCase(Spell[qr_record.notes], Spell[keyword])

NoWildcard(keyword) == \A i \in DOMAIN Spell[keyword] : Spell[keyword][i] \notin {"%", "_"}

Cex_C14_ExactTagsAllPresent ==
    TagSearchReturned =>
        \A i \in DOMAIN lastOp.ret.found :
            \A k \in DOMAIN lastOp.arg.tags :
                /\ lastOp.ret.found[i].tags # NoneTags
                /\ \E j \in DOMAIN lastOp.ret.found[i].tags :
                       lastOp.ret.found[i].tags[j] = lastOp.arg.tags[k]

(***************************************************************************)
(* Decoding rows that were written by hand.                                *)
(***************************************************************************)
LoadedRow == CHOOSE row \in qrcodes : row.id = lastOp.arg

RowLoaded ==
    /\ lastOp.op = "load_qrcode" /\ lastOp.fault = "none"
    /\ \E row \in qrcodes : row.id = lastOp.arg

UnknownTypeNullColumns(row) ==
    /\ row.qr_type \notin QRCodeTypes
    /\ row.error_correction = None /\ row.size = NullNumber /\ row.border = NullNumber
    /\ row.foreground_color = None /\ row.background_color = None
    /\ row.gradient_type = None /\ row.output_format = None

DocumentedDefaults(qr_record) ==
    /\ qr_record.qr_type = "TEXT"
    /\ qr_record.error_correction = "H"
    /\ qr_record.size = 10
    /\ qr_record.border = 4
    /\ qr_record.foreground_color = "#000000"
    /\ qr_record.background_color = "#FFFFFF"
    /\ qr_record.gradient_type = "linear"
    /\ qr_record.output_format = "PNG"

Cex_C16_SixtyLoadsAsHalf ==
    (RowLoaded /\ LoadedRow.logo_scale = 60000) => lastOp.ret[1].logo_scale = LogoScaleMax

(***************************************************************************)
(* C16, amended: the whole number 60 in the logo_scale column is read as   *)
(* 0.6; the loaded record has logo_scale 0.5 when the row has a non-empty  *)
(* logo path, and the default 0.2 when its logo path is NULL or empty.     *)
(***************************************************************************)
Thm_C16_SixtyClampedWithLogo ==
    (RowLoaded /\ LoadedRow.logo_scale = 60000) =>
        /\ CoerceLogoScale(LoadedRow.logo_scale) = 600
        /\ ~Falsy(LoadedRow.logo_path) => lastOp.ret[1].logo_scale = LogoScaleMax
        /\ Falsy(LoadedRow.logo_path) => lastOp.ret[1].logo_scale = LogoScaleDefault

Wit_C16_SixtyWithLogoLoaded ==
    /\ RowLoaded
    /\ LoadedRow.logo_scale = 60000
    /\ LoadedRow.logo_path = "logo.png"
    /\ lastOp.ret[1].logo_scale = LogoScaleMax

FileScanDelivered == scanPc \in {"finish", "idle"} /\ files # <<>>

Reached == 1..scanIdx

SignalsOf(name) == {p \in DOMAIN squeue : squeue[p].sig = name}

(***************************************************************************)
(* C18: when a file scan has delivered its results, every file in turn was *)
(* reached unless a stop was requested; each missing or unreadable file    *)
(* reached was reported by one error signal and contributed nothing, and   *)
(* the one result list delivered holds exactly the hits of the readable    *)
(* files reached, in file order.                                           *)
(***************************************************************************)
Thm_C18_UnreadableSkipped ==
    FileScanDelivered =>
        /\ scanning => scanIdx = Len(files)
        /\ Cardinality(SignalsOf("error_occurred")) =
               Cardinality({i \in Reached : files[i] = "missing"})
        /\ {results[k] : k \in DOMAIN results} = {i \in Reached : files[i] = "hit"}
        /\ \A j, k \in DOMAIN results : j < k => results[j] < results[k]
        /\ Cardinality(SignalsOf("qr_scanned")) = 1
        /\ \A p \in SignalsOf("qr_scanned") : squeue[p].res = results

Wit_C18_HitAfterMissingFile ==
    /\ FileScanDelivered
    /\ files = <<"missing", "hit">>
    /\ scanning
    /\ results = <<2>>
    /\ Cardinality(SignalsOf("error_occurred")) = 1

(***************************************************************************)
(* C19: a render of a record whose logo path names a file that does not    *)
(* exist ends in a file-not-found failure, and a render of a record with   *)
(* no logo path ends normally with no logo pasted onto the image.          *)
(***************************************************************************)
Cex_C19_MissingLogoFails ==
    \A n \in DOMAIN verdict :
        /\ (~Falsy(record[1].logo_path) /\ ~os_path_exists(record[1].logo_path)
                /\ validate_result(record[1]).ok) =>
               (verdict[n].outcome \in {"raised", "error_occurred"}
                    /\ verdict[n].message = "FileNotFoundError")
        /\ (Falsy(record[1].logo_path) /\ validate_result(record[1]).ok) =>
               (verdict[n].outcome \in {"returned", "qr_generated", "saved"}
                    /\ ~verdict[n].logo)

(***************************************************************************)
(* C20: the confidence returned for a decoded object with a bounding box   *)
(* and corner points is min(area / 10000, 1) times min(points / 4, 1),     *)
(* to two decimals.                                                        *)
(***************************************************************************)
Cex_C20_ProductOfFactors ==
    (confidence # <<>> /\ decoded_obj.rect # <<>> /\ decoded_obj.polygon # <<>>) =>
        confidence[1] =
            (Least(decoded_obj.rect[1].width * decoded_obj.rect[1].height, 10000)
                 * Least(decoded_obj.polygon[1], 4) + 200) \div 400

(***************************************************************************)
(* C21: once the user has paused or stopped a batch generation from the    *)
(* dialog, the engine run that was in progress writes no item other than   *)
(* those finished before and the one it was generating at that moment.     *)
(***************************************************************************)
Cex_C21_HaltStopsWorker ==
    \A n \in DOMAIN halted : halted[n].run = runs => written \subseteq 1..halted[n].upto


(***************************************************************************)
(* C22: a generation request issued while the worker thread still executes *)
(* an earlier run is not lost: the worker eventually iterates the list of  *)
(* that request to its end, and the dialog eventually leaves its           *)
(* processing state.                                                       *)
(***************************************************************************)
RequestWhileRunning == starts > runs

RequestProcessed == items = batch_data /\ pc \in {"final", "exit", "idle"}

Cex_C22_RequestNotLost ==
    /\ RequestWhileRunning ~> RequestProcessed
    /\ (RequestWhileRunning /\ is_processing) ~> ~is_processing


(***************************************************************************)
(* C23: every scan started from the main window eventually re-enables the  *)
(* scan button, also when the run ends with an error.                      *)
(***************************************************************************)
Cex_C23_ScanButtonReenabled == ~scan_btn ~> scan_btn


(***************************************************************************)
(* C24: the scanner's scanning flag is true only while a scan run          *)
(* executes: whenever the scanner thread is not running, is_scanning()     *)
(* returns false, also after a call of get_available_cameras.              *)
(***************************************************************************)
Cex_C24_FlagOnlyWhileRunning == is_scanning => scanPc # "idle"


(***************************************************************************)
(* C25: the result list exported when a batch scan finishes contains       *)
(* exactly the hits of that run.  When the slot of the last queued         *)
(* scan_finished runs with the scanner thread ended, the run in question   *)
(* is the scanner's last one, whose hits are its results.                  *)
(***************************************************************************)
LastRunExported == exported' # exported /\ scanPc = "idle" /\ squeue' = <<>>

Cex_C25_OnlyHitsOfThatRun ==
    [][LastRunExported => exported'[Len(exported')] = results]_vars


(***************************************************************************)
(* C26: in gradient mode every pixel of an 'off' module keeps the          *)
(* background colour, and drawing an 'on' module changes only pixels       *)
(* inside its own cell of module_size by module_size pixels.               *)
(***************************************************************************)
Cell(x, y) ==
    (x * module_size..(x + 1) * module_size - 1) \X (y * module_size..(y + 1) * module_size - 1)

OffModulesKeepBackground ==
    \A y \in 0..Len(matrix) - 1, x \in 0..Len(matrix) - 1 :
        ~matrix[y + 1][x + 1] => \A p \in Cell(x, y) : image[p] = background_color

DrawsInsideOwnCell ==
    \A p \in DOMAIN image :
        image'[p] # image[p] => p \in Cell(cursor % Len(matrix), cursor \div Len(matrix))

Cex_C26_OnlyOwnCellColoured == []OffModulesKeepBackground /\ [][DrawsInsideOwnCell]_vars


(***************************************************************************)
(* C29 as stated: the side length the logo is resized to is at least 20    *)
(* and at most half of the smaller canvas dimension, for every canvas size *)
(* and every logo scale.                                                   *)
(***************************************************************************)
SmallerSide == Min(qr_image_size[1], qr_image_size[2])

Cex_C29_AlwaysWithinBothBounds ==
    logo_size # <<>> =>
        logo_size[1] >= MinLogoSize /\ logo_size[1] <= SmallerSide \div 2

(***************************************************************************)
(* C29: the side length the logo is resized to is at most half of the      *)
(* smaller canvas dimension for every canvas size and every logo scale,    *)
(* and it is at least 20 whenever that half is at least 20.                *)
(***************************************************************************)
Thm_C29_CeilingFirst ==
    logo_size # <<>> =>
        /\ logo_size[1] <= SmallerSide \div 2
        /\ SmallerSide \div 2 >= MinLogoSize => logo_size[1] >= MinLogoSize

Wit_C29_SmallCanvasBelowFloor ==
    /\ logo_size # <<>>
    /\ SmallerSide \div 2 < MinLogoSize
    /\ logo_size[1] = SmallerSide \div 2

(***************************************************************************)
(* C30: the mix ratio computed for an 'on' module is, in radial mode, its  *)
(* distance from the matrix centre divided by half the length of the       *)
(* matrix diagonal, and in linear mode (column + row) / (2 * side).        *)
(***************************************************************************)
DocumentedRatio(type, x, y, side) ==
    IF type = "radial"
    THEN LET center == side \div 2
             distance2 == (x - center) * (x - center) + (y - center) * (y - center)
         IN  Isqrt((1000000 * distance2 * 2) \div (side * side))
    ELSE (1000 * (x + y)) \div (2 * side)

Cex_C30_RatioAsDocumented ==
    ratio # <<>> =>
        ratio[1].value = DocumentedRatio(gradient_type, ratio[1].x, ratio[1].y, Len(matrix))


(***************************************************************************)
(* C27: after a batch generation has finished, the records the dialog      *)
(* saved to the store are exactly the items of the batch whose image was   *)
(* generated.                                                              *)
(***************************************************************************)
SavedItems(entry) == 1..entry.saved

Cex_C27_SavedAreGenerated ==
    \A n \in DOMAIN summary : SavedItems(summary[n]) = GoodItems(summary[n].batch)


(***************************************************************************)
(* C28: editing a template never loses it: when edit_template returns      *)
(* after the editor was accepted, the store holds the original template or *)
(* the edited one, also when saving failed.                                *)
(***************************************************************************)
EditReturned == lastOp.op = "edit_template" /\ lastOp.outcome = "returned"

HoldsEdited ==
    \E row \in templates :
        row.name = lastOp.arg.name /\ row.category = lastOp.arg.category

Cex_C28_EditKeepsTemplate ==
    EditReturned => lastOp.arg.original \in templates \/ HoldsEdited

====
